---------------------------- MODULE Spec2Model ----------------------------
(***************************************************************************)
(* A model of dynamodb_geo: the geo query engine (GeoTable, table.py) and  *)
(* the streaming statistics aggregator (StatisticsStreamHandler,           *)
(* statistics.py).                                                         *)
(*                                                                         *)
(* Geohashes are sequences of digits.  One digit stands for one geohash    *)
(* character and carries one bit: the odd digits halve the longitude, the  *)
(* even digits halve the latitude, as the bits of a real geohash do.  A    *)
(* position is one digit finer than the finest stored geohash, so two      *)
(* items of one finest cell can lie on different sides of a polygon's edge.*)
(***************************************************************************)
EXTENDS Integers, Sequences, FiniteSets, TLC

VARIABLES
    table,      \* the source table: the set of stored items (one per id)
    qargs,      \* the arguments of the running paginated query (polygon, geohash, limit)
    pages,      \* the pages GeoTable.query returned so far, oldest first
    cursor,     \* last_evaluated_key of the last result (None: end of results)
    qstatus,    \* "idle", "paging", "done", or the error the last call raised
    qlog,       \* the store requests of the last GeoTable.query call
    enriched,   \* the last enrich_item call: its arguments and what it left
    rastered,   \* the last _raster_polygon call observed on its own
    statistics, \* the counter table: cell id -> [item_count, updated_at]
    tokens,     \* the ClientRequestTokens of the transactions the store committed
    stream,     \* the change records of the source table, oldest first
    handled,    \* how many records of the stream were handed to handle_event
    now,        \* the clock
    debug,      \* Python's __debug__: FALSE when the interpreter runs with -O
    last,       \* the last record handled: what was there before, what was done
    workers,    \* the concurrent stream consumers, one per shard: where each stands
    reprocess,  \* the running reprocess_full_table call: where it stands
    squery      \* the last StatisticsTable.query call: its arguments and result

qvars == <<qargs, pages, cursor, qstatus, qlog, enriched, rastered>>

svars == <<statistics, tokens, stream, handled, now, debug, last>>

cvars == <<workers, reprocess, squery>>

vars == <<table, qvars, svars, cvars>>

---------------------------------------------------------------------------
(* Python's None and an optional value.                                    *)
None == <<>>

Some(x) == <<x>>

Min(a, b) == IF a <= b THEN a ELSE b

(* s[0:n] of Python: the first n elements, all of s when it is shorter.    *)
Slice(s, n) == SubSeq(s, 1, Min(n, Len(s)))

(* str.startswith / DynamoDB's BEGINS_WITH.                                *)
BeginsWith(s, p) == Len(p) <= Len(s) /\ SubSeq(s, 1, Len(p)) = p

(* Python's < on strings: lexicographic, a proper prefix is smaller.       *)
RECURSIVE LexLess(_, _)
LexLess(a, b) ==
    IF b = <<>> THEN FALSE
    ELSE IF a = <<>> THEN TRUE
    ELSE IF Head(a) # Head(b) THEN Head(a) < Head(b)
    ELSE LexLess(Tail(a), Tail(b))

LexLeq(a, b) == a = b \/ LexLess(a, b)

---------------------------------------------------------------------------
(* Configuration and the model's universe.                                 *)

Digits == {0, 1}

(* GeoTableConfiguration: partition key "id", no sort key, and the two     *)
(* lengths, scaled to the one-bit alphabet.                                *)
config == [prefix_length |-> 1, precision |-> 2, sort_key_field |-> None]

(* Sequences over Digits of length n.                                      *)
RECURSIVE Strings(_)
Strings(n) ==
    IF n = 0 THEN {<<>>}
    ELSE {Append(s, d) : s \in Strings(n - 1), d \in Digits}

(* True positions: one digit finer than config.precision.                  *)
Positions == Strings(config.precision + 1)

(* Every cell string a caller can name: lengths 0 .. precision + 1.        *)
Cells == UNION {Strings(n) : n \in 0..(config.precision + 1)}

Ids == {1, 2, 3}

MaxLimit == 2

(* Longitude and latitude of a position on the grid its digits span.       *)
RECURSIVE LonOf(_, _)
LonOf(p, acc) ==
    IF p = <<>> THEN acc
    ELSE IF Len(p) = 1 THEN 2 * acc + p[1]
    ELSE LonOf(Tail(Tail(p)), 2 * acc + p[1])

RECURSIVE LatOf(_, _)
LatOf(p, acc) ==
    IF Len(p) < 2 THEN acc
    ELSE LatOf(Tail(Tail(p)), 2 * acc + p[2])

Lon(p) == LonOf(p, 0)

Lat(p) == LatOf(p, 0)

SetMin(S) == CHOOSE x \in S : \A y \in S : x <= y

SetMax(S) == CHOOSE x \in S : \A y \in S : x >= y

Lons == {Lon(p) : p \in Positions}

Lats == {Lat(p) : p \in Positions}

(* shapely's box(w, s, e, n); the query polygons are boxes whose edges run *)
(* between the grid's positions, so no position lies on an edge: w, s, e,  *)
(* n name the outermost grid lines the box holds.                          *)
Polygons ==
    {b \in [w : Lons, s : Lats, e : Lons, n : Lats] : b.w <= b.e /\ b.s <= b.n}

(* Polygon.contains(Point(lon, lat)).                                      *)
Contains(polygon, p) ==
    /\ polygon.w <= Lon(p) /\ Lon(p) <= polygon.e
    /\ polygon.s <= Lat(p) /\ Lat(p) <= polygon.n

---------------------------------------------------------------------------
(* The geohash capability (libgeohash), as table.py calls it.              *)

(* libgeohash.encode(lat, lon, precision): the cell of that length holding *)
(* the position.                                                           *)
Encode(position, precision) == Slice(position, precision)

(* libgeohash.bbox(geohash) and shapely's box() of it: the box covering    *)
(* the cell.                                                               *)
Bbox(geohash) ==
    LET inside == {p \in Positions : BeginsWith(p, geohash)}
    IN  [w |-> SetMin({Lon(p) : p \in inside}), s |-> SetMin({Lat(p) : p \in inside}),
         e |-> SetMax({Lon(p) : p \in inside}), n |-> SetMax({Lat(p) : p \in inside})]

(* libgeohash.polygon_to_geohash(polygon, precision): the cells of that    *)
(* length that the polygon touches.                                        *)
PolygonToGeohash(polygon, precision) ==
    {Encode(p, precision) : p \in {q \in Positions : Contains(polygon, q)}}

---------------------------------------------------------------------------
(* GeoItemEnricher.enrich_item and GeoTable.put_item.                      *)

(* An item is a mapping from field names to values.  The model keeps the  *)
(* partition key (id) and the three fields the library reads; each of the  *)
(* three is None (the item has no such field) or Some(value).              *)
BareItem(id) == [id |-> id, position |-> None, geohash |-> None, geohash_prefix |-> None]

(* The items a caller hands to put_item: an id and a position.             *)
RawItems == {[BareItem(id) EXCEPT !.position = Some(p)] : id \in Ids, p \in Positions}

(* A check that lets every field be set.                                   *)
NoFieldConflict(value, overwrite_existing) == FALSE

(* not overwrite_existing and key in item.                                 *)
FieldConflict(value, overwrite_existing) == ~overwrite_existing /\ value # None

(* An assignment that leaves a field that is present as it is.             *)
SetIfAbsent(heap, ref, key, value, overwrite_existing) ==
    IF FieldConflict(heap[ref][key], overwrite_existing)
    THEN [error |-> "FieldConflict", heap |-> heap]
    ELSE [error |-> "",
          heap |-> IF heap[ref][key] = None
                   THEN [heap EXCEPT ![ref][key] = Some(value)] ELSE heap]

(* _set_item_value(item, key, value, overwrite_existing): `heap` maps the  *)
(* names of the objects to their values, `ref` names the dict assigned to. *)
_set_item_value(heap, ref, key, value, overwrite_existing) ==
    IF FieldConflict(heap[ref][key], overwrite_existing)
    THEN [error |-> "FieldConflict", heap |-> heap]
    ELSE [error |-> "", heap |-> [heap EXCEPT ![ref][key] = Some(value)]]

(* No copy: the same object under the same name.                           *)
SameObject(heap, ref) == [heap |-> heap, ref |-> ref]

(* deepcopy(item): a new object with the value of the object `ref`.        *)
deepcopy(heap, ref) ==
    [heap |-> [r \in DOMAIN heap \cup {"enriched_item"} |->
                   IF r = "enriched_item" THEN heap[ref] ELSE heap[r]],
     ref |-> "enriched_item"]

(* enrich_item(item, overwrite_existing): the error raised, the item       *)
(* returned and the object it is, and the caller's item after the call.    *)
enrich_item(item, overwrite_existing) ==
    IF item.position = None
    THEN [error |-> "KeyError", item |-> item, input |-> item, object |-> "item"]
    ELSE
    LET geohash == Encode(item.position[1], config.precision)
        geohash_prefix == Slice(geohash, config.prefix_length)
        enriched_item == deepcopy([r \in {"item"} |-> item], "item")
        first == _set_item_value(enriched_item.heap, enriched_item.ref, "geohash",
                                 geohash, overwrite_existing)
        second == _set_item_value(first.heap, enriched_item.ref, "geohash_prefix",
                                  geohash_prefix, overwrite_existing)
    IN  IF first.error # ""
        THEN [error |-> first.error, item |-> item, input |-> first.heap["item"],
              object |-> "item"]
        ELSE IF second.error # ""
        THEN [error |-> second.error, item |-> item, input |-> second.heap["item"],
              object |-> "item"]
        ELSE [error |-> "", item |-> second.heap[enriched_item.ref],
              input |-> second.heap["item"], object |-> enriched_item.ref]

(* Table.put_item(Item=...): the item replaces the one of the same key.    *)
StorePut(tbl, item) == {it \in tbl : it.id # item.id} \cup {item}

(* Table.get_item(Key=...): the set holding the item, empty when there is  *)
(* no 'Item' in the result.                                                *)
StoreGet(tbl, key) == {it \in tbl : it.id = key.id}

(* GeoTable.put_item(item): the error raised and the table it leaves.      *)
put_item(tbl, item) ==
    LET enriched_item == enrich_item(item, FALSE)
    IN  [error |-> enriched_item.error,
         table |-> IF enriched_item.error = "" THEN StorePut(tbl, enriched_item.item)
                   ELSE tbl]

---------------------------------------------------------------------------
(* GeoTable: keys and the partition query on the geohash index.            *)

MAX_PARTITIONS_TO_QUERY == 256

QUERY_OPTIMIZER_MIN_HASHES == 8

QUERY_OPTIMIZER_MAX_HASHES == 64

(* The limits of the class.                                                *)
GeoTableLimits ==
    [MAX_PARTITIONS_TO_QUERY |-> MAX_PARTITIONS_TO_QUERY,
     QUERY_OPTIMIZER_MIN_HASHES |-> QUERY_OPTIMIZER_MIN_HASHES,
     QUERY_OPTIMIZER_MAX_HASHES |-> QUERY_OPTIMIZER_MAX_HASHES]

(* The same limits scaled to the grid, which has 2 cells of prefix_length  *)
(* and 4 of precision.                                                     *)
ScaledGeoLimits ==
    [MAX_PARTITIONS_TO_QUERY : 1..2, QUERY_OPTIMIZER_MIN_HASHES : 1..2,
     QUERY_OPTIMIZER_MAX_HASHES : 3..4]

primary_key_from_item(item) == [id |-> item.id]

query_key_from_item(item) ==
    [id |-> item.id, geohash_prefix |-> item.geohash_prefix[1],
     geohash |-> item.geohash[1]]

(* The entries of the geohash index: the index is sparse, an item lacking  *)
(* one of its key fields is not in it.                                     *)
IndexKeys(tbl) ==
    {query_key_from_item(it) : it \in {i \in tbl : i.geohash # None /\ i.geohash_prefix # None}}

(* The order of the geohash index inside one partition: by the range key   *)
(* (the geohash), items of one geohash by their primary key.               *)
IndexLess(a, b) ==
    \/ LexLess(a.geohash, b.geohash)
    \/ a.geohash = b.geohash /\ a.id < b.id

(* The items of a finite set as a sequence in index order.                 *)
RECURSIVE IndexOrder(_)
IndexOrder(S) ==
    IF S = {} THEN <<>>
    ELSE LET least == CHOOSE x \in S : \A y \in S \ {x} : IndexLess(x, y)
         IN  <<least>> \o IndexOrder(S \ {least})

(* sorted(): the strings of a finite set in ascending order.               *)
RECURSIVE sorted(_)
sorted(S) ==
    IF S = {} THEN <<>>
    ELSE LET least == CHOOSE x \in S : \A y \in S \ {x} : LexLess(x, y)
         IN  <<least>> \o sorted(S \ {least})

(* Table.query on the index with KeyConditions prefix EQ, geohash          *)
(* BEGINS_WITH, Limit and ExclusiveStartKey: the next Limit items in index *)
(* order after the start key, and LastEvaluatedKey when the Limit was      *)
(* reached.  A start key outside the key conditions is refused.            *)
_query_partition(tbl, geohash, limit, exclusive_start_key) ==
    LET geohash_prefix == Slice(geohash, config.prefix_length)
        InRange(k) == k.geohash_prefix = geohash_prefix /\ BeginsWith(k.geohash, geohash)
        matching == {k \in IndexKeys(tbl) : InRange(k)}
        rest == IF exclusive_start_key = None THEN matching
                ELSE {k \in matching : IndexLess(exclusive_start_key[1], k)}
        ordered == IndexOrder(rest)
        keys == Slice(ordered, limit)
        page == [n \in 1..Len(keys) |-> CHOOSE it \in tbl : it.id = keys[n].id]
    IN  IF exclusive_start_key # None /\ ~InRange(exclusive_start_key[1])
        THEN [error |-> "ValidationException", Items |-> <<>>, LastEvaluatedKey |-> None]
        ELSE [error |-> "",
              Items |-> page,
              LastEvaluatedKey |->
                  IF Len(ordered) >= limit
                  THEN Some(keys[Len(keys)])
                  ELSE None]

(* The rows of the queried cells, taken without the exact filter.          *)
UnfilteredItems(items, polygon) == items

(* GeoTable._filter_items / _is_item_in_polygon.                           *)
_filter_items(items, polygon) ==
    SelectSeq(items, LAMBDA item : Contains(polygon, item.position[1]))

---------------------------------------------------------------------------
(* GeoTable.query.                                                         *)

(* What a call that raises leaves: the exception, and the store requests   *)
(* made before it (the cursor lookup, the cells of the partition queries). *)
Failure(name) ==
    [error |-> name, items |-> <<>>, last_evaluated_key |-> None,
     get_item |-> FALSE, queried |-> <<>>, geohashes |-> <<>>, requests |-> <<>>]

(* A validation that only asks for some shape.                             *)
SomeShapeGiven(polygon, geohash) ==
    IF polygon = None /\ geohash = None THEN "InvalidQuery" ELSE ""

(* GeoTable._validate_parameters(polygon, geohash).                        *)
_validate_parameters(polygon, geohash) ==
    IF polygon = None /\ geohash = None THEN "InvalidQuery"
    ELSE IF polygon # None /\ geohash # None THEN "InvalidQuery"
    ELSE ""

(* A refinement that goes on to the finest precision within the high      *)
(* threshold, whether or not the low threshold is met.                     *)
RECURSIVE RefineToFinest(_, _, _, _, _)
RefineToFinest(_config, polygon, precision, hashes, limits) ==
    IF precision > _config.precision THEN hashes
    ELSE LET current_hashes == PolygonToGeohash(polygon, precision)
         IN  IF Cardinality(current_hashes) <= limits.QUERY_OPTIMIZER_MAX_HASHES
             THEN RefineToFinest(_config, polygon, precision + 1, current_hashes, limits)
             ELSE hashes

(* The loop over precisions of _raster_polygon, from `precision` on.       *)
RECURSIVE RefineRaster(_, _, _, _, _)
RefineRaster(_config, polygon, precision, hashes, limits) ==
    IF precision > _config.precision THEN hashes
    ELSE LET current_hashes == PolygonToGeohash(polygon, precision)
         IN  IF Cardinality(current_hashes) <= limits.QUERY_OPTIMIZER_MAX_HASHES
             THEN IF Cardinality(current_hashes) >= limits.QUERY_OPTIMIZER_MIN_HASHES
                  THEN current_hashes
                  ELSE RefineRaster(_config, polygon, precision + 1, current_hashes, limits)
             ELSE hashes

(* A partition ceiling that is never exceeded.                             *)
NoCeiling(hashes, limits) == FALSE

(* len(hashes) > self.MAX_PARTITIONS_TO_QUERY.                             *)
TooManyPartitions(hashes, limits) ==
    Cardinality(hashes) > limits.MAX_PARTITIONS_TO_QUERY

(* A rasterization that returns the cells of prefix_length when they are   *)
(* few and refines them when they are many.                                *)
ReturnedWhenFew(hashes, limits) ==
    Cardinality(hashes) < limits.QUERY_OPTIMIZER_MIN_HASHES

(* len(hashes) > self.QUERY_OPTIMIZER_MIN_HASHES: the cells of             *)
(* prefix_length are returned as they are.                                 *)
ReturnedDirectly(hashes, limits) ==
    Cardinality(hashes) > limits.QUERY_OPTIMIZER_MIN_HASHES

(* GeoTable._raster_polygon(polygon) of a table with this configuration    *)
(* and these class attributes.                                             *)
_raster_polygon(_config, polygon, limits) ==
    LET hashes == PolygonToGeohash(polygon, _config.prefix_length)
    IN  IF TooManyPartitions(hashes, limits)
        THEN [error |-> "QueryTooLarge", hashes |-> {}]
        ELSE IF ReturnedDirectly(hashes, limits)
        THEN [error |-> "", hashes |-> hashes]
        ELSE [error |-> "",
              hashes |-> RefineRaster(_config, polygon, _config.prefix_length + 1,
                                      hashes, limits)]

(* A scan that asks the store for limit + 1 rows in every request.         *)
AlwaysLimitPlusOne(limit, items) == limit + 1

(* remaining_items = limit + 1 - len(items).                               *)
remaining_items(limit, items) == limit + 1 - Len(items)

(* The while loop of query over one cell: pages of the cell are fetched    *)
(* until limit + 1 items are collected or the store reports no further     *)
(* key.  `requests` collects the partition queries made: the cell, the     *)
(* Limit and ExclusiveStartKey sent, the LastEvaluatedKey received and the *)
(* number of items collected after it.                                     *)
RECURSIVE ScanCell(_, _, _, _, _, _, _)
ScanCell(tbl, limit, polygon, geohash_to_query, items, last_evaluated_key, requests) ==
    IF Len(items) >= limit + 1
    THEN [error |-> "", items |-> items, last_evaluated_key |-> last_evaluated_key,
          requests |-> requests]
    ELSE LET Collected(page, new_items) ==
                 LET asked == Append(requests,
                                     [geohash |-> geohash_to_query,
                                      Limit |-> remaining_items(limit, items),
                                      ExclusiveStartKey |-> last_evaluated_key,
                                      LastEvaluatedKey |-> page.LastEvaluatedKey,
                                      collected |-> Len(items) + Len(new_items)])
                 IN  IF page.error # ""
                     THEN [error |-> page.error, items |-> <<>>,
                           last_evaluated_key |-> None, requests |-> asked]
                     ELSE IF page.LastEvaluatedKey = None
                     THEN [error |-> "", items |-> items \o new_items,
                           last_evaluated_key |-> None, requests |-> asked]
                     ELSE ScanCell(tbl, limit, polygon, geohash_to_query,
                                   items \o new_items, page.LastEvaluatedKey, asked)
             Fetched(page) ==
                 Collected(page, IF polygon # None
                                 THEN _filter_items(page.Items, polygon[1])
                                 ELSE page.Items)
         IN  Fetched(_query_partition(tbl, geohash_to_query,
                                      remaining_items(limit, items), last_evaluated_key))

(* The for loop of query over the cells, from the i-th on.                 *)
RECURSIVE ScanCells(_, _, _, _, _, _, _, _)
ScanCells(tbl, limit, polygon, geohashes, i, items, last_evaluated_key, requests) ==
    IF i > Len(geohashes)
    THEN [error |-> "", items |-> items, last_evaluated_key |-> last_evaluated_key,
          requests |-> requests]
    ELSE LET r == ScanCell(tbl, limit, polygon, geohashes[i], items, last_evaluated_key,
                           requests)
         IN  IF r.error # "" THEN r
             ELSE ScanCells(tbl, limit, polygon, geohashes, i + 1,
                            r.items, r.last_evaluated_key, r.requests)

(* Result shapings that differ from query's: one that returns every row   *)
(* collected, one that sets the cursor as soon as limit rows are collected.*)
UnslicedResult(items, limit) ==
    [error |-> "", items |-> items,
     last_evaluated_key |-> IF Len(items) >= limit + 1
         THEN Some(primary_key_from_item(items[limit])) ELSE None]

EagerCursorResult(items, limit) ==
    [error |-> "", items |-> Slice(items, limit),
     last_evaluated_key |-> IF Len(items) >= limit
         THEN Some(primary_key_from_item(items[limit])) ELSE None]

(* The result shaping at the end of query.                                 *)
QueryResult(items, limit) ==
    [error |-> "",
     items |-> Slice(items, limit),
     last_evaluated_key |->
         IF Len(items) >= limit + 1
         THEN Some(primary_key_from_item(items[limit]))
         ELSE None]

(* A cursor lookup that hands back some stored item when the key's item is *)
(* gone.                                                                   *)
StoreGetAny(tbl, key) ==
    IF {it \in tbl : it.id = key.id} # {} THEN {it \in tbl : it.id = key.id}
    ELSE IF tbl = {} THEN {}
    ELSE {CHOOSE it \in tbl : TRUE}

(* self._table.get_item(Key=exclusive_start_key).                          *)
get_item(tbl, key) == StoreGet(tbl, key)

(* GeoTable.query(limit, polygon, geohash, exclusive_start_key); polygon,  *)
(* geohash and exclusive_start_key are None or Some(value).  `limits` are  *)
(* the class attributes.  The steps of the method are local operators,    *)
(* each applied to the values the steps before it computed: the polygon,   *)
(* the raster, the sorted cells, the cursor's item and the scan.           *)
query(tbl, limit, polygon_arg, geohash, exclusive_start_key, limits) ==
    LET Scanned(geohashes, scan) ==
            [error |-> scan.error,
             items |-> IF scan.error = "" THEN QueryResult(scan.items, limit).items
                       ELSE <<>>,
             last_evaluated_key |->
                 IF scan.error = "" THEN QueryResult(scan.items, limit).last_evaluated_key
                 ELSE None,
             get_item |-> exclusive_start_key # None,
             queried |-> [k \in 1..Len(scan.requests) |-> scan.requests[k].geohash],
             geohashes |-> geohashes,
             requests |-> scan.requests]
        Resumed(polygon, geohashes, item) ==
            LET query_precision == Len(geohashes[1])
                last_geohash == Slice(item.geohash[1], query_precision)
            IN  Scanned(geohashes,
                        ScanCells(tbl, limit, polygon,
                                  SelectSeq(geohashes, LAMBDA g : LexLeq(last_geohash, g)),
                                  1, <<>>, Some(query_key_from_item(item)), <<>>))
        Looked(polygon, geohashes, found) ==
            IF found = {}
            THEN [Failure("ResumeItemNotFound") EXCEPT !.get_item = TRUE,
                                                       !.geohashes = geohashes]
            ELSE Resumed(polygon, geohashes, CHOOSE it \in found : TRUE)
        Selected(polygon, geohashes) ==
            IF geohashes = <<>> THEN Failure("IndexError")
            ELSE IF exclusive_start_key # None
            THEN Looked(polygon, geohashes, get_item(tbl, exclusive_start_key[1]))
            ELSE Scanned(geohashes,
                         ScanCells(tbl, limit, polygon, geohashes, 1, <<>>, None, <<>>))
        Rastered(polygon, raster) ==
            IF raster.error # "" THEN Failure(raster.error)
            ELSE Selected(polygon, sorted(raster.hashes))
        Shaped(polygon) ==
            Rastered(polygon,
                     IF polygon # None THEN _raster_polygon(config, polygon[1], limits)
                     ELSE [error |-> "", hashes |-> {geohash[1]}])
    IN  IF _validate_parameters(polygon_arg, geohash) # ""
        THEN Failure(_validate_parameters(polygon_arg, geohash))
        ELSE Shaped(IF geohash # None /\ (\/ Len(geohash[1]) < config.prefix_length
                                          \/ Len(geohash[1]) > config.precision)
                    THEN Some(Bbox(geohash[1]))
                    ELSE polygon_arg)

---------------------------------------------------------------------------
(* StatisticsStreamHandler: the change items of one stream record.         *)

(* StatisticsConfiguration.precision_steps, scaled like config.            *)
statistics_config == [precision_steps |-> <<1, 2>>]

(* _get_utcnow(): datetime.utcnow(), a datetime without tzinfo.            *)
_get_utcnow(clock) == [time |-> clock, tzinfo |-> None]

(* _timestamp_to_db(timestamp): `assert timestamp.tzinfo == timezone.utc`, *)
(* executed unless the interpreter strips assert statements, then          *)
(* strftime.                                                               *)
_timestamp_to_db(timestamp, dbg) ==
    IF dbg /\ timestamp.tzinfo # Some("utc")
    THEN [error |-> "AssertionError", value |-> 0]
    ELSE [error |-> "", value |-> timestamp.time]

(* _get_geohash(item): the geohash field's value, None when the item has   *)
(* no such field.                                                          *)
_get_geohash(item) == item.geohash

(* Python's truth value of a geohash: None and the empty string are false. *)
Truthy(geohash) == geohash # None /\ geohash[1] # <<>>

(* _get_key(geohash, precision).                                           *)
_get_key(geohash, precision) ==
    IF Len(geohash) < precision
    THEN [error |-> "ValueError", key |-> <<>>]
    ELSE [error |-> "", key |-> Slice(geohash, precision)]

(* _get_change_item(geohash, precision, increment): the update             *)
(* `ADD item_count :item_count SET updated_at = :updated_at` on the cell's *)
(* row.  The attribute values are built before the key.                    *)
_get_change_item(geohash, precision, increment, clock, dbg) ==
    LET updated_at == _timestamp_to_db(_get_utcnow(clock), dbg)
        key == _get_key(geohash, precision)
    IN  IF updated_at.error # ""
        THEN [error |-> updated_at.error, Key |-> <<>>, item_count |-> 0, updated_at |-> 0]
        ELSE [error |-> key.error, Key |-> key.key, item_count |-> increment,
              updated_at |-> updated_at.value]

(* _get_conditional_delete(geohash, precision): delete the cell's row on   *)
(* the condition item_count <= 0.                                          *)
_get_conditional_delete(geohash, precision) ==
    LET key == _get_key(geohash, precision)
    IN  [error |-> key.error, Key |-> key.key, item_count |-> 0]

(* The comparison of the whole geohashes, whatever the tier.               *)
GeohashChanged(old_geohash, new_geohash, precision) == old_geohash # new_geohash

(* Does the record move the item to another cell of this tier?             *)
CellChanged(old_geohash, new_geohash, precision) ==
    Slice(old_geohash, precision) # Slice(new_geohash, precision)

(* One pass of the loop over precision_steps: the updates appended.        *)
TierUpdates(old_geohash, new_geohash, precision, clock, dbg) ==
    IF Truthy(old_geohash) /\ Truthy(new_geohash)
    THEN IF CellChanged(old_geohash[1], new_geohash[1], precision)
         THEN <<_get_change_item(old_geohash[1], precision, -1, clock, dbg),
                _get_change_item(new_geohash[1], precision, 1, clock, dbg)>>
         ELSE <<>>
    ELSE IF Truthy(new_geohash)
    THEN <<_get_change_item(new_geohash[1], precision, 1, clock, dbg)>>
    ELSE IF Truthy(old_geohash)
    THEN <<_get_change_item(old_geohash[1], precision, -1, clock, dbg)>>
    ELSE <<>>

(* A pass that appends a conditional delete for a REMOVE only, not for a   *)
(* MODIFY that leaves the cell.                                            *)
TierDeletesOfRemove(old_geohash, new_geohash, precision) ==
    IF Truthy(old_geohash) /\ ~Truthy(new_geohash)
    THEN <<_get_conditional_delete(old_geohash[1], precision)>>
    ELSE <<>>

(* One pass of the loop over precision_steps: the conditional deletes      *)
(* appended.                                                               *)
TierDeletes(old_geohash, new_geohash, precision) ==
    IF Truthy(old_geohash) /\ Truthy(new_geohash)
    THEN IF CellChanged(old_geohash[1], new_geohash[1], precision)
         THEN <<_get_conditional_delete(old_geohash[1], precision)>>
         ELSE <<>>
    ELSE IF Truthy(new_geohash) THEN <<>>
    ELSE IF Truthy(old_geohash)
    THEN <<_get_conditional_delete(old_geohash[1], precision)>>
    ELSE <<>>

(* A loop over precision_steps that ends after one pass.                   *)
OneTierUpdates(old_geohash, new_geohash, i, clock, dbg) ==
    TierUpdates(old_geohash, new_geohash, statistics_config.precision_steps[i], clock, dbg)

(* The loop over precision_steps, from the i-th step on.                   *)
RECURSIVE AllUpdates(_, _, _, _, _)
AllUpdates(old_geohash, new_geohash, i, clock, dbg) ==
    IF i > Len(statistics_config.precision_steps) THEN <<>>
    ELSE TierUpdates(old_geohash, new_geohash,
                     statistics_config.precision_steps[i], clock, dbg)
         \o AllUpdates(old_geohash, new_geohash, i + 1, clock, dbg)

RECURSIVE AllDeletes(_, _, _)
AllDeletes(old_geohash, new_geohash, i) ==
    IF i > Len(statistics_config.precision_steps) THEN <<>>
    ELSE TierDeletes(old_geohash, new_geohash, statistics_config.precision_steps[i])
         \o AllDeletes(old_geohash, new_geohash, i + 1)

(* The first exception raised while the requests of a list were built.     *)
FirstError(requests) ==
    IF \E k \in 1..Len(requests) : requests[k].error # ""
    THEN requests[SetMin({k \in 1..Len(requests) : requests[k].error # ""})].error
    ELSE ""

---------------------------------------------------------------------------
(* The counter table's store operations, as the handler calls them.        *)

(* One Update of a transaction: ADD creates the row when it is missing.    *)
ApplyUpdate(stats, update) ==
    LET k == update.Key
        count == IF k \in DOMAIN stats THEN stats[k].item_count ELSE 0
    IN  [c \in DOMAIN stats \cup {k} |->
            IF c = k THEN [item_count |-> count + update.item_count,
                           updated_at |-> update.updated_at]
            ELSE stats[c]]

RECURSIVE ApplyUpdates(_, _)
ApplyUpdates(stats, updates) ==
    IF updates = <<>> THEN stats
    ELSE ApplyUpdates(ApplyUpdate(stats, Head(updates)), Tail(updates))

(* client.transact_write_items(TransactItems, ClientRequestToken): all     *)
(* updates or none; a token the store has committed makes the call a no-op.*)
TransactWriteItems(store, updates, token) ==
    IF token # None /\ token[1] \in store.tokens THEN store
    ELSE [statistics |-> ApplyUpdates(store.statistics, updates),
          tokens |-> IF token # None THEN store.tokens \cup {token[1]} ELSE store.tokens]

(* client.delete_item(TableName, Key) of reprocess_full_table: the row is  *)
(* deleted whatever it holds; a missing row is no error.                   *)
DeleteRow(stats, key) == [c \in DOMAIN stats \ {key} |-> stats[c]]

(* A delete_item without its ConditionExpression.                          *)
delete_item_unconditionally(stats, delete) ==
    [error |-> "", statistics |-> [c \in DOMAIN stats \ {delete.Key} |-> stats[c]]]

(* client.delete_item with ConditionExpression item_count <= :item_count:  *)
(* the row is deleted when it exists and satisfies the condition; a row    *)
(* that is missing or fails it raises ConditionalCheckFailedException.     *)
delete_item(stats, delete) ==
    IF delete.Key \in DOMAIN stats /\ stats[delete.Key].item_count <= delete.item_count
    THEN [error |-> "", statistics |-> [c \in DOMAIN stats \ {delete.Key} |-> stats[c]]]
    ELSE [error |-> "ConditionalCheckFailedException", statistics |-> stats]

(* An except clause that catches nothing.                                  *)
NothingSwallowed(error) == FALSE

(* except self._client.exceptions.ConditionalCheckFailedException.         *)
Swallowed(error) == error = "ConditionalCheckFailedException"

(* The try statement around delete_item: the exception left to propagate   *)
(* and the counter table after the call.                                   *)
DeleteItemIf(stats, delete) ==
    LET r == delete_item(stats, delete)
    IN  [error |-> IF Swallowed(r.error) THEN "" ELSE r.error, statistics |-> r.statistics]

(* The loop over conditional_deletes, up to the first delete that raises.  *)
RECURSIVE DeleteItemsIf(_, _)
DeleteItemsIf(stats, deletes) ==
    IF deletes = <<>> THEN [error |-> "", statistics |-> stats]
    ELSE LET r == DeleteItemIf(stats, Head(deletes))
         IN  IF r.error # "" THEN r ELSE DeleteItemsIf(r.statistics, Tail(deletes))

---------------------------------------------------------------------------
(* StatisticsStreamHandler._handle_dynamodb_stream_record and handle_event.*)

(* A transaction submitted without a token.                                *)
NoClientRequestToken(record) == None

(* ClientRequestToken=f'event_id={record["eventId"]}'.                     *)
ClientRequestToken(record) == Some(record.eventId)

(* The images the record's event name makes the handler read.              *)
OldGeohash(record) ==
    IF record.eventName \in {"MODIFY", "REMOVE"}
    THEN _get_geohash(record.OldImage[1]) ELSE None

NewGeohash(record) ==
    IF record.eventName \in {"INSERT", "MODIFY"}
    THEN _get_geohash(record.NewImage[1]) ELSE None

(* store is [statistics, tokens].  The result adds what the call did: the  *)
(* exception it raised, the updates it submitted in its transaction and    *)
(* the conditional deletes it issued.                                      *)
_handle_dynamodb_stream_record(store, record, clock, dbg) ==
    LET old_geohash == OldGeohash(record)
        new_geohash == NewGeohash(record)
        updates == AllUpdates(old_geohash, new_geohash, 1, clock, dbg)
        conditional_deletes == AllDeletes(old_geohash, new_geohash, 1)
        error == FirstError(updates \o conditional_deletes)
        committed == IF Len(updates) > 0
                     THEN TransactWriteItems(store, updates, ClientRequestToken(record))
                     ELSE store
        deleted == DeleteItemsIf(committed.statistics, conditional_deletes)
    IN  IF error # ""
        THEN [statistics |-> store.statistics, tokens |-> store.tokens, error |-> error,
              updates |-> <<>>, deletes |-> <<>>]
        ELSE [statistics |-> deleted.statistics,
              tokens |-> committed.tokens, error |-> deleted.error,
              updates |-> updates, deletes |-> conditional_deletes]

NoRecord == [eventId |-> 0, eventName |-> "", OldImage |-> None, NewImage |-> None]

(* handle_event({'Records': records}): the records in order, up to the     *)
(* first that raises.  The result is the store after them and the account  *)
(* of the last record handled.                                             *)
RECURSIVE HandleRecords(_, _, _, _, _)
HandleRecords(store, records, clock, dbg, done) ==
    LET record == Head(records)
        r == _handle_dynamodb_stream_record(store, record, clock, dbg)
        account == [record |-> record, before |-> store.statistics, error |-> r.error,
                    updates |-> r.updates, deletes |-> r.deletes]
    IN  IF r.error # "" \/ Tail(records) = <<>>
        THEN [statistics |-> r.statistics, tokens |-> r.tokens,
              account |-> account, count |-> done + 1]
        ELSE HandleRecords([statistics |-> r.statistics, tokens |-> r.tokens],
                           Tail(records), clock + 1, dbg, done + 1)

handle_event(store, event, clock, dbg) ==
    HandleRecords(store, event.Records, clock, dbg, 0)

---------------------------------------------------------------------------
(* StatisticsTable: the statistics query.                                  *)

StatisticsTable_QUERY_OPTIMIZER_MAX_HASHES == 200

StatisticsTable_MAX_HASHES_TO_QUERY == 1000

StatisticsTable_MAX_NUMBER_OF_RECURSIONS == 20

query_batch_size == 100

(* The limits of the class, and of query's local query_batch_size.         *)
SourceLimits ==
    [QUERY_OPTIMIZER_MAX_HASHES |-> StatisticsTable_QUERY_OPTIMIZER_MAX_HASHES,
     MAX_HASHES_TO_QUERY |-> StatisticsTable_MAX_HASHES_TO_QUERY,
     MAX_NUMBER_OF_RECURSIONS |-> StatisticsTable_MAX_NUMBER_OF_RECURSIONS,
     query_batch_size |-> query_batch_size]

(* The same limits scaled to the grid, whose tiers have 2, 4 and 8 cells   *)
(* and whose polygons have estimates of 2 to 4 recursions.                 *)
ScaledLimits ==
    {limits \in [QUERY_OPTIMIZER_MAX_HASHES : 1..2, MAX_HASHES_TO_QUERY : 1..2,
                 MAX_NUMBER_OF_RECURSIONS : 2..3, query_batch_size : {2}] :
        limits.QUERY_OPTIMIZER_MAX_HASHES <= limits.MAX_HASHES_TO_QUERY}

(* The limits of the class with a query_batch_size the grid's cell sets    *)
(* exceed.                                                                 *)
BatchedLimits == [SourceLimits EXCEPT !.query_batch_size = 3]

(* precision_steps of the StatisticsConfiguration a StatisticsTable is     *)
(* made with: a tuple in any order.                                        *)
PrecisionSteps == {<<1, 2>>, <<2, 1>>, <<1, 2, 3>>}

(* Lengths are kept in half grid units and compared by their squares.      *)
(* libgeohash.distance between the south-west and the north-east corner of *)
(* polygon.bounds, squared; a box reaches a quarter unit beyond the        *)
(* outermost positions it holds.                                           *)
DiagonalDist2(polygon) ==
    LET width == 2 * (polygon.e - polygon.w) + 1
        height == 2 * (polygon.n - polygon.s) + 1
    IN  width * width + height * height

(* polygon.centroid, encoded: the cell of the position next to the middle  *)
(* of the box.                                                             *)
CenterGeohash(polygon, precision) ==
    LET lon == (polygon.w + polygon.e) \div 2
        lat == (polygon.s + polygon.n) \div 2
    IN  Encode(CHOOSE p \in Positions : Lon(p) = lon /\ Lat(p) = lat, precision)

(* libgeohash.dimensions(geohash): height and width of the cell.           *)
Dimensions(geohash) ==
    LET b == Bbox(geohash)
    IN  <<2 * (b.n - b.s + 1), 2 * (b.e - b.w + 1)>>

(* a // b for the lengths whose squares are a2 and b2: the greatest k     *)
(* with k * b <= a, searched from k on.                                    *)
RECURSIVE FloorRatioFrom(_, _, _)
FloorRatioFrom(a2, b2, k) ==
    IF (k + 1) * (k + 1) * b2 > a2 THEN k ELSE FloorRatioFrom(a2, b2, k + 1)

FloorRatio(a2, b2) == FloorRatioFrom(a2, b2, 0)

(* StatisticsTable._number_of_recursions(polygon, precision).              *)
_number_of_recursions(polygon, precision) ==
    LET diagonal_dist2 == DiagonalDist2(polygon)
        center_dimensions == Dimensions(CenterGeohash(polygon, precision))
        center_geohash_diagonal_dist2 ==
            center_dimensions[1] * center_dimensions[1]
            + center_dimensions[2] * center_dimensions[2]
    IN  FloorRatio(diagonal_dist2, center_geohash_diagonal_dist2) + 2

(* The precision steps as given, not sorted.                               *)
UnsortedSteps(steps) == steps

(* sorted(precision_steps): ascending.                                     *)
RECURSIVE SortedSteps(_)
SortedSteps(steps) ==
    IF steps = <<>> THEN <<>>
    ELSE LET least == SetMin({steps[j] : j \in 1..Len(steps)})
             k == SetMin({j \in 1..Len(steps) : steps[j] = least})
         IN  <<least>> \o SortedSteps(SubSeq(steps, 1, k - 1) \o SubSeq(steps, k + 1, Len(steps)))

(* The loop of StatisticsTable._raster_polygon from the i-th of the sorted *)
(* steps on; hashes is None until a tier was accepted.                     *)
RECURSIVE RasterSteps(_, _, _, _, _)
RasterSteps(polygon, steps, i, hashes, limits) ==
    IF i > Len(steps) THEN [error |-> "", hashes |-> hashes]
    ELSE IF _number_of_recursions(polygon, steps[i]) > limits.MAX_NUMBER_OF_RECURSIONS
    THEN [error |-> "", hashes |-> hashes]
    ELSE LET current_hashes == sorted(PolygonToGeohash(polygon, steps[i]))
         IN  IF hashes = None
             THEN IF Len(current_hashes) <= limits.MAX_HASHES_TO_QUERY
                  THEN RasterSteps(polygon, steps, i + 1, Some(current_hashes), limits)
                  ELSE [error |-> "ValueError", hashes |-> None]
             ELSE IF Len(current_hashes) <= limits.QUERY_OPTIMIZER_MAX_HASHES
             THEN RasterSteps(polygon, steps, i + 1, Some(current_hashes), limits)
             ELSE [error |-> "", hashes |-> hashes]

(* StatisticsTable._raster_polygon(polygon): None when no tier was         *)
(* accepted.                                                               *)
StatisticsTable_raster_polygon(polygon, precision_steps, limits) ==
    RasterSteps(polygon, SortedSteps(precision_steps), 1, None, limits)

(* n \div b, which leaves out the last, partial batch.                     *)
FullBatches(n, b) == n \div b

(* int((len(hashes) - 1) / query_batch_size + 1): the float is truncated   *)
(* towards zero, which gives 0 for no hashes.                              *)
NumberOfBatches(n, b) == IF n = 0 THEN 0 ELSE (n - 1) \div b + 1

(* hashes[batch * query_batch_size:(batch + 1) * query_batch_size], with   *)
(* batches counted from 1.                                                 *)
BatchKeys(hashes, batch, b) ==
    SubSeq(hashes, (batch - 1) * b + 1, Min(batch * b, Len(hashes)))

(* _statistics_item_from_db(item): the row's geohash and item_count, and   *)
(* the cell's bounding box, whose middle is the item's center.             *)
_statistics_item_from_db(stats, geohash) ==
    [geohash |-> geohash, item_count |-> stats[geohash].item_count,
     boundaries |-> Bbox(geohash)]

(* client.batch_get_item(Keys): the rows stored under the keys; the store  *)
(* client hands back every requested row that exists.                      *)
BatchGetItem(stats, keys) == SelectSeq(keys, LAMBDA k : k \in DOMAIN stats)

RECURSIVE GetBatches(_, _, _)
GetBatches(stats, requests, batch) ==
    IF batch > Len(requests) THEN <<>>
    ELSE BatchGetItem(stats, requests[batch]) \o GetBatches(stats, requests, batch + 1)

(* StatisticsTable.query(polygon): the exception raised, the hashes of     *)
(* _raster_polygon, the key lists of the batch_get_item calls and the      *)
(* items of the result.                                                    *)
StatisticsTable_query(stats, polygon, precision_steps, limits) ==
    LET raster == StatisticsTable_raster_polygon(polygon, precision_steps, limits)
        failed(name) == [error |-> name, hashes |-> <<>>, requests |-> <<>>, items |-> <<>>]
    IN  IF raster.error # "" THEN failed(raster.error)
        ELSE IF raster.hashes = None THEN failed("TypeError")
        ELSE LET hashes == raster.hashes[1]
                 number_of_batches == NumberOfBatches(Len(hashes), limits.query_batch_size)
                 requests == [batch \in 1..number_of_batches |->
                                BatchKeys(hashes, batch, limits.query_batch_size)]
                 rows == GetBatches(stats, requests, 1)
             IN  [error |-> "", hashes |-> hashes, requests |-> requests,
                  items |-> [k \in 1..Len(rows) |-> _statistics_item_from_db(stats, rows[k])]]

---------------------------------------------------------------------------
(* The state before any query was made and before any record was written.  *)

NoQuery == [limit |-> 0, polygon |-> None, geohash |-> None, limits |-> None]

NoLog ==
    [exclusive_start_key |-> None, get_item |-> FALSE, queried |-> <<>>,
     geohashes |-> <<>>, requests |-> <<>>]

NoRaster ==
    [called |-> FALSE, config |-> None, polygon |-> None, limits |-> None,
     error |-> "", hashes |-> {}]

NoEnrich ==
    [called |-> FALSE, put |-> FALSE, item |-> None, overwrite_existing |-> FALSE,
     error |-> "", result |-> None, input |-> None, object |-> "", first |-> None]

QueryIdle ==
    /\ qargs = NoQuery
    /\ pages = <<>>
    /\ cursor = None
    /\ qstatus = "idle"
    /\ qlog = NoLog
    /\ enriched = NoEnrich
    /\ rastered = NoRaster

NoAccount ==
    [record |-> NoRecord, before |-> <<>>, error |-> "", updates |-> <<>>,
     deletes |-> <<>>, replay |-> FALSE]

StreamIdle ==
    /\ statistics = <<>>
    /\ tokens = {}
    /\ stream = <<>>
    /\ handled = 0
    /\ now = 1
    /\ last = NoAccount

(* No stream consumer is running, reprocess_full_table was not called and  *)
(* the statistics were not queried.                                        *)
IdleWorker ==
    [pc |-> "idle", done |-> 0, at |-> 0, until |-> 0, pending |-> <<>>,
     error |-> "", swallowed |-> 0, replay |-> FALSE]

NoReprocess ==
    [pc |-> "idle", rows |-> {}, items |-> {}, error |-> "", streamed |-> 0, handled |-> 0]

NoStatisticsQuery ==
    [called |-> FALSE, polygon |-> None, precision_steps |-> <<>>, limits |-> None,
     error |-> "", hashes |-> <<>>, requests |-> <<>>, items |-> <<>>]

Quiet ==
    /\ workers = [h \in {} |-> IdleWorker]
    /\ reprocess = NoReprocess
    /\ squery = NoStatisticsQuery

---------------------------------------------------------------------------
(* The statistics specification: clients write the source table, the       *)
(* table's stream hands the change records to handle_event in order, in    *)
(* batches, and may deliver a record again.                                *)

StatIds == {1, 2}

MaxEvents == 3

MaxBatch == 2

(* The items written to the source table.  Item 1 is written with and     *)
(* without geo fields, at two positions of one finest cell, at one of its  *)
(* sibling cell and at one of another prefix; item 2 shares item 1's first *)
(* cell.                                                                   *)
StreamPositions == {<<0, 0, 0>>, <<0, 0, 1>>, <<0, 1, 0>>, <<1, 0, 0>>}

StreamRawItems ==
    {r \in RawItems : r.id = 1 /\ r.position[1] \in StreamPositions}
    \cup {r \in RawItems : r.id = 2 /\ r.position[1] = <<0, 0, 0>>}

StreamItems == {enrich_item(raw, FALSE).item : raw \in StreamRawItems} \cup {BareItem(1)}

SInit ==
    /\ table = {}
    /\ QueryIdle
    /\ StreamIdle
    /\ Quiet
    /\ debug \in BOOLEAN

(* A change record of the stream (NEW_AND_OLD_IMAGES).                     *)
Record(name, old, new) ==
    [eventId |-> Len(stream) + 1, eventName |-> name, OldImage |-> old, NewImage |-> new]

(* A client puts an item: INSERT, or MODIFY of the item it replaces.       *)
SourcePut(item) ==
    /\ Len(stream) < MaxEvents
    /\ item \notin table
    /\ table' = StorePut(table, item)
    /\ LET old == StoreGet(table, item)
       IN  stream' = Append(stream,
                        IF old = {} THEN Record("INSERT", None, Some(item))
                        ELSE Record("MODIFY", Some(CHOOSE o \in old : TRUE), Some(item)))
    /\ UNCHANGED <<qvars, cvars, statistics, tokens, handled, now, debug, last>>

(* A client deletes an item: REMOVE.                                       *)
SourceDelete(id) ==
    /\ Len(stream) < MaxEvents
    /\ \E old \in table :
          /\ old.id = id
          /\ table' = table \ {old}
          /\ stream' = Append(stream, Record("REMOVE", Some(old), None))
    /\ UNCHANGED <<qvars, cvars, statistics, tokens, handled, now, debug, last>>

(* What a call of handle_event leaves.                                     *)
Handled(result, replay) ==
    /\ statistics' = result.statistics
    /\ tokens' = result.tokens
    /\ last' = [record |-> result.account.record, before |-> result.account.before,
                error |-> result.account.error, updates |-> result.account.updates,
                deletes |-> result.account.deletes, replay |-> replay]

(* The stream delivers the next n records to handle_event.                 *)
HandleEvent(n) ==
    /\ handled + n <= Len(stream)
    /\ LET event == [Records |-> SubSeq(stream, handled + 1, handled + n)]
           result == handle_event([statistics |-> statistics, tokens |-> tokens],
                                  event, now, debug)
       IN  /\ Handled(result, FALSE)
           /\ handled' = handled + result.count
           /\ now' = now + result.count
    /\ UNCHANGED <<table, qvars, cvars, stream, debug>>

(* The stream delivers a record again (at-least-once delivery), any       *)
(* number of times.  The clock is read only for requests the store ignores *)
(* or that are never sent, so the time a redelivery takes is not counted.  *)
Redeliver(k) ==
    /\ k <= handled
    /\ LET event == [Records |-> <<stream[k]>>]
           result == handle_event([statistics |-> statistics, tokens |-> tokens],
                                  event, now, debug)
       IN  Handled(result, TRUE)
    /\ UNCHANGED <<table, qvars, cvars, stream, handled, now, debug>>

SNext ==
    \/ \E item \in StreamItems : SourcePut(item)
    \/ \E id \in StatIds : SourceDelete(id)
    \/ \E n \in 1..MaxBatch : HandleEvent(n)
    \/ \E k \in 1..MaxEvents : Redeliver(k)

StatsSpec == SInit /\ [][SNext]_vars

---------------------------------------------------------------------------
(* The concurrent statistics specification: the stream keeps the records   *)
(* of one item in one shard, in order; every shard has its own consumer,   *)
(* which calls handle_event with batches of its shard; the consumers run   *)
(* in parallel and every store request of a call is a step of its own.     *)

Shards == StatIds

RecordId(record) ==
    IF record.NewImage # None THEN record.NewImage[1].id ELSE record.OldImage[1].id

Shard(h) == SelectSeq(stream, LAMBDA record : RecordId(record) = h)

CInit ==
    /\ table = {}
    /\ QueryIdle
    /\ StreamIdle
    /\ debug \in BOOLEAN
    /\ workers = [h \in Shards |-> IdleWorker]
    /\ reprocess = NoReprocess
    /\ squery = NoStatisticsQuery

(* The consumer stands before a record: the next record of its batch, or   *)
(* the first record of a new batch of its shard.                           *)
AtRecord(h) ==
    \/ workers[h].pc = "transact"
    \/ workers[h].pc = "idle" /\ workers[h].done < Len(Shard(h))

(* A new batch holds the next records of the shard, at most MaxBatch.      *)
Entered(h) ==
    LET w == workers[h]
    IN  IF w.pc = "transact" THEN w
        ELSE [w EXCEPT !.at = w.done + 1,
                       !.until = Min(w.done + MaxBatch, Len(Shard(h))),
                       !.error = "", !.swallowed = 0, !.replay = FALSE]

(* handle_event returns or raises: the consumer is idle again.             *)
WorkerReturned(w, error, done) ==
    [w EXCEPT !.pc = "idle", !.error = error, !.at = 0, !.until = 0, !.pending = <<>>,
              !.swallowed = 0, !.replay = FALSE,
              !.done = IF done > w.done THEN done ELSE w.done]

(* _handle_dynamodb_stream_record returns: the loop of handle_event goes   *)
(* on with the next record of the batch.                                   *)
RecordDone(w) ==
    IF w.at < w.until
    THEN [w EXCEPT !.pc = "transact", !.at = w.at + 1, !.pending = <<>>]
    ELSE WorkerReturned(w, "", w.until)

(* _handle_dynamodb_stream_record up to and with transact_write_items.     *)
Transacted(h, w) ==
    LET record == Shard(h)[w.at]
        old_geohash == OldGeohash(record)
        new_geohash == NewGeohash(record)
        updates == AllUpdates(old_geohash, new_geohash, 1, now, debug)
        conditional_deletes == AllDeletes(old_geohash, new_geohash, 1)
        error == FirstError(updates \o conditional_deletes)
        committed == IF Len(updates) > 0
                     THEN TransactWriteItems([statistics |-> statistics, tokens |-> tokens],
                                             updates, ClientRequestToken(record))
                     ELSE [statistics |-> statistics, tokens |-> tokens]
    IN  /\ statistics' = IF error # "" THEN statistics ELSE committed.statistics
        /\ tokens' = IF error # "" THEN tokens ELSE committed.tokens
        /\ workers' = [workers EXCEPT ![h] =
              IF error # "" THEN WorkerReturned(w, error, w.at)
              ELSE IF conditional_deletes = <<>> THEN RecordDone(w)
              ELSE [w EXCEPT !.pc = "deleting", !.pending = conditional_deletes]]
        /\ now' = IF w.replay THEN now ELSE now + 1

(* The consumer of shard h handles the record it stands before, up to and  *)
(* with the transaction.                                                   *)
WorkerTransact(h) ==
    /\ AtRecord(h)
    /\ Transacted(h, Entered(h))
    /\ UNCHANGED <<table, qvars, stream, handled, debug, last, reprocess, squery>>

(* The store cancels the transaction (TransactionCanceledException):       *)
(* nothing is written, handle_event raises, and the stream delivers the    *)
(* record again later.                                                     *)
WorkerTransactFails(h) ==
    /\ AtRecord(h)
    /\ LET w == Entered(h)
           record == Shard(h)[w.at]
           updates == AllUpdates(OldGeohash(record), NewGeohash(record), 1, now, debug)
       IN  /\ Len(updates) > 0
           /\ FirstError(updates) = ""
           /\ record.eventId \notin tokens
           /\ workers[h].error # "TransactionCanceledException"
           /\ workers' = [workers EXCEPT ![h] =
                 WorkerReturned(w, "TransactionCanceledException", w.at - 1)]
    /\ UNCHANGED <<table, qvars, svars, reprocess, squery>>

(* The consumer of shard h issues the next conditional delete.             *)
WorkerDelete(h) ==
    /\ workers[h].pc = "deleting"
    /\ LET w == workers[h]
           attempt == delete_item(statistics, Head(w.pending))
           r == DeleteItemIf(statistics, Head(w.pending))
           rest == [w EXCEPT !.pending = Tail(w.pending),
                             !.swallowed = IF attempt.error # "" THEN 1 ELSE w.swallowed]
       IN  /\ statistics' = r.statistics
           /\ workers' = [workers EXCEPT ![h] =
                 IF r.error # "" THEN WorkerReturned(w, r.error, w.at)
                 ELSE IF rest.pending = <<>> THEN RecordDone(rest)
                 ELSE rest]
    /\ UNCHANGED <<table, qvars, tokens, stream, handled, now, debug, last, reprocess, squery>>

(* The stream delivers a batch of shard h again, from its k-th record on   *)
(* (at-least-once delivery).                                               *)
WorkerRedeliver(h, k) ==
    /\ workers[h].pc = "idle"
    /\ k <= workers[h].done
    /\ Transacted(h, [workers[h] EXCEPT !.at = k,
                                        !.until = Min(k + MaxBatch - 1, workers[h].done),
                                        !.error = "", !.swallowed = 0, !.replay = TRUE])
    /\ UNCHANGED <<table, qvars, stream, handled, debug, last, reprocess, squery>>

CNext ==
    \/ \E item \in StreamItems : SourcePut(item)
    \/ \E id \in StatIds : SourceDelete(id)
    \/ \E h \in Shards : WorkerTransact(h)
    \/ \E h \in Shards : WorkerTransactFails(h)
    \/ \E h \in Shards : WorkerDelete(h)
    \/ \E h \in Shards, k \in 1..MaxEvents : WorkerRedeliver(h, k)

ConcSpec == CInit /\ [][CNext]_vars

(* A consumer that is inside _handle_dynamodb_stream_record behind the     *)
(* transaction goes on to its conditional deletes: the loop of lines       *)
(* 184-188 follows the transaction in the same call.                       *)
FairConcSpec == ConcSpec /\ \A h \in Shards : WF_vars(WorkerDelete(h))

---------------------------------------------------------------------------
(* The reprocessing specification: handle_event is called once with        *)
(* {'Reprocess': True} while clients write the source table and the stream *)
(* delivers change records to other handle_event calls.  Every store       *)
(* request of reprocess_full_table is a step of its own.  The tables are   *)
(* small, so each scan returns one page: the table as it is when the scan  *)
(* is made, in an order the store chooses.  Every record is delivered     *)
(* once.                                                                   *)

(* The counter tables reprocessing may find: none, or one left by a        *)
(* handler of an earlier configuration, with a stale count in a cell of a  *)
(* tier and a row whose key length is no tier of the configuration.        *)
PriorStatistics ==
    {<<>>,
     [c \in {<<0>>, <<0, 0, 0>>} |->
        [item_count |-> IF c = <<0>> THEN 2 ELSE 1, updated_at |-> 0]]}

(* The items written while reprocessing is observed: item 1 without geo    *)
(* fields and in two cells of different prefixes, item 2 in the first of   *)
(* them.                                                                   *)
ReprocessItems ==
    {item \in StreamItems :
        item.geohash # None => item.position[1] \in {<<0, 0, 0>>, <<1, 0, 0>>}}

RInit ==
    /\ table = {}
    /\ QueryIdle
    /\ statistics \in PriorStatistics
    /\ tokens = {}
    /\ stream = <<>>
    /\ handled = 0
    /\ now = 1
    /\ last = NoAccount
    /\ Quiet
    /\ debug \in BOOLEAN

(* The synthetic inserts of one scanned source item: +1 at every tier when *)
(* the item has a geohash.                                                 *)
ReprocessUpdates(item, clock, dbg) ==
    LET geohash == _get_geohash(item)
        steps == statistics_config.precision_steps
    IN  IF Truthy(geohash)
        THEN [i \in 1..Len(steps) |-> _get_change_item(geohash[1], steps[i], 1, clock, dbg)]
        ELSE <<>>

(* reprocess_full_table is entered and scans the counter table.            *)
ReprocessStart ==
    /\ reprocess.pc = "idle"
    /\ reprocess' = [reprocess EXCEPT !.pc = "clearing", !.rows = DOMAIN statistics,
                                      !.streamed = Len(stream), !.handled = handled]
    /\ UNCHANGED <<table, qvars, svars, workers, squery>>

(* It deletes one of the scanned rows.                                     *)
ReprocessDelete ==
    /\ reprocess.pc = "clearing"
    /\ \E key \in reprocess.rows :
          /\ statistics' = DeleteRow(statistics, key)
          /\ reprocess' = [reprocess EXCEPT !.rows = @ \ {key}]
    /\ UNCHANGED <<table, qvars, tokens, stream, handled, now, debug, last, workers, squery>>

(* All scanned rows are deleted: it scans the source table.                *)
ReprocessScan ==
    /\ reprocess.pc = "clearing"
    /\ reprocess.rows = {}
    /\ reprocess' = [reprocess EXCEPT !.pc = IF table = {} THEN "finished" ELSE "counting",
                                      !.items = table]
    /\ UNCHANGED <<table, qvars, svars, workers, squery>>

(* It replays one of the scanned items: one transaction, without a         *)
(* ClientRequestToken, when the item has a geohash.  An exception raised   *)
(* while the updates are built ends the call.                              *)
ReprocessItem ==
    /\ reprocess.pc = "counting"
    /\ \E item \in reprocess.items :
          LET updates == ReprocessUpdates(item, now, debug)
              error == FirstError(updates)
              store == [statistics |-> statistics, tokens |-> tokens]
          IN  IF error # ""
              THEN /\ reprocess' = [reprocess EXCEPT !.pc = "failed", !.error = error]
                   /\ UNCHANGED <<statistics, now>>
              ELSE /\ statistics' = IF updates = <<>> THEN statistics
                                    ELSE TransactWriteItems(store, updates, None).statistics
                   /\ now' = now + 1
                   /\ reprocess' = [reprocess EXCEPT
                                      !.items = @ \ {item},
                                      !.pc = IF reprocess.items = {item} THEN "finished"
                                             ELSE "counting"]
    /\ UNCHANGED <<table, qvars, tokens, stream, handled, debug, last, workers, squery>>

RNext ==
    \/ ReprocessStart
    \/ ReprocessDelete
    \/ ReprocessScan
    \/ ReprocessItem
    \/ \E item \in ReprocessItems : SourcePut(item)
    \/ \E id \in StatIds : SourceDelete(id)
    \/ \E n \in 1..MaxBatch : HandleEvent(n)

ReprocessSpec == RInit /\ [][RNext]_vars

---------------------------------------------------------------------------
(* The statistics query specification: items are put and counted, then     *)
(* StatisticsTable.query is called once on the unchanged counter table.    *)

MaxInserts == 2

(* The positions of the counted items: two cells of one prefix and one of  *)
(* another.                                                                *)
CountedPositions == {<<0, 0, 0>>, <<0, 1, 0>>, <<1, 0, 0>>}

(* The counter table is written by a handler that runs without the         *)
(* assertion of _timestamp_to_db.                                          *)
TInit ==
    /\ table = {}
    /\ QueryIdle
    /\ StreamIdle
    /\ Quiet
    /\ debug = FALSE

(* A client puts a new item at a position and handle_event is called with  *)
(* its INSERT record.                                                      *)
PutCounted(position) ==
    /\ ~squery.called
    /\ Len(stream) < MaxInserts
    /\ Len(stream) + 1 \in Ids
    /\ LET raw == [BareItem(Len(stream) + 1) EXCEPT !.position = Some(position)]
           item == enrich_item(raw, FALSE).item
           record == Record("INSERT", None, Some(item))
           result == handle_event([statistics |-> statistics, tokens |-> tokens],
                                  [Records |-> <<record>>], now, debug)
       IN  /\ table' = StorePut(table, item)
           /\ stream' = Append(stream, record)
           /\ Handled(result, FALSE)
           /\ handled' = handled + result.count
           /\ now' = now + result.count
    /\ UNCHANGED <<qvars, cvars, debug>>

(* query(polygon) on a StatisticsTable made with precision_steps.          *)
StatisticsQuery(polygon, precision_steps, limits) ==
    /\ ~squery.called
    /\ LET result == StatisticsTable_query(statistics, polygon, precision_steps, limits)
       IN  squery' = [called |-> TRUE, polygon |-> polygon,
                      precision_steps |-> precision_steps, limits |-> limits,
                      error |-> result.error, hashes |-> result.hashes,
                      requests |-> result.requests, items |-> result.items]
    /\ UNCHANGED <<table, qvars, svars, workers, reprocess>>

TNext ==
    \/ \E position \in CountedPositions : PutCounted(position)
    \/ \E polygon \in Polygons, precision_steps \in PrecisionSteps,
          limits \in {SourceLimits, BatchedLimits} \cup ScaledLimits :
            StatisticsQuery(polygon, precision_steps, limits)

StatisticsQuerySpec == TInit /\ [][TNext]_vars

---------------------------------------------------------------------------
(* The geo query specification: items are put, then one query is paged     *)
(* through on the unchanged table.                                         *)

(* The shapes a query is started with: one polygon, one cell, neither, or  *)
(* both.                                                                   *)
QueryShapes ==
    {[polygon |-> Some(p), geohash |-> None] : p \in Polygons}
    \cup {[polygon |-> None, geohash |-> Some(g)] : g \in Cells}
    \cup {[polygon |-> None, geohash |-> None]}
    \cup {[polygon |-> Some(Bbox(<<>>)), geohash |-> Some(g)] : g \in Strings(1)}

ItemIds(items) == [k \in 1..Len(items) |-> items[k].id]

QInit ==
    /\ table = {}
    /\ QueryIdle
    /\ StreamIdle
    /\ Quiet
    /\ debug = TRUE

(* GeoTable.put_item(item).                                                *)
PutItem(item) ==
    /\ qstatus = "idle"
    /\ table' = put_item(table, item).table
    /\ UNCHANGED <<qvars, svars, cvars>>

(* What a call of query leaves with the caller, and the requests it made   *)
(* of the store.                                                           *)
Returned(result, exclusive_start_key) ==
    /\ qlog' = [exclusive_start_key |-> exclusive_start_key,
                get_item |-> result.get_item, queried |-> result.queried,
                geohashes |-> result.geohashes, requests |-> result.requests]
    /\ pages' = IF result.error = "" THEN Append(pages, ItemIds(result.items)) ELSE pages
    /\ cursor' = result.last_evaluated_key
    /\ qstatus' = IF result.error # "" THEN result.error
                  ELSE IF result.last_evaluated_key = None THEN "done"
                  ELSE "paging"

(* The first call: query(limit, polygon, geohash, exclusive_start_key),    *)
(* on a table of a class with these limits.                                *)
StartQuery(limit, shape, limits, exclusive_start_key) ==
    /\ qstatus = "idle"
    /\ qargs' = [limit |-> limit, polygon |-> shape.polygon, geohash |-> shape.geohash,
                 limits |-> limits]
    /\ Returned(query(table, limit, shape.polygon, shape.geohash, exclusive_start_key,
                      limits), exclusive_start_key)
    /\ UNCHANGED <<table, enriched, rastered, svars, cvars>>

(* A following call: the same query with exclusive_start_key the last      *)
(* result's last_evaluated_key.                                            *)
NextPage ==
    /\ qstatus = "paging"
    /\ Returned(query(table, qargs.limit, qargs.polygon, qargs.geohash, cursor,
                      qargs.limits), cursor)
    /\ UNCHANGED <<table, qargs, enriched, rastered, svars, cvars>>

QNext ==
    \/ \E item \in RawItems : PutItem(item)
    \/ \E limit \in 1..MaxLimit, shape \in QueryShapes :
            StartQuery(limit, shape, GeoTableLimits, None)
    \/ NextPage

QuerySpec == QInit /\ [][QNext]_vars

---------------------------------------------------------------------------
(* The cursor specification: a query is paged through under limits scaled  *)
(* to the grid, while items are deleted from the table between its pages.  *)

(* A polygon that holds no position, and so no cell.                       *)
EmptyPolygon == [w |-> 1, s |-> 1, e |-> 0, n |-> 0]

(* Another client deletes the item of this key between two pages.          *)
DeletedBetweenPages(id) ==
    /\ qstatus = "paging"
    /\ \E it \in table : it.id = id
    /\ table' = {it \in table : it.id # id}
    /\ UNCHANGED <<qvars, svars, cvars>>

(* Items of two ids are put, at one position of each cell of precision;    *)
(* polygon queries are started under each of the scaled limits, without a  *)
(* cursor or with one kept from an earlier query.                          *)
GNext ==
    \/ \E item \in {it \in RawItems : it.id \in {1, 2} /\ it.position[1][3] = 0} :
            PutItem(item)
    \/ \E limit \in 1..MaxLimit, polygon \in Polygons \cup {EmptyPolygon},
          limits \in ScaledGeoLimits, exclusive_start_key \in {None, Some([id |-> 1])} :
            StartQuery(limit, [polygon |-> Some(polygon), geohash |-> None], limits,
                       exclusive_start_key)
    \/ NextPage
    \/ \E id \in Ids : DeletedBetweenPages(id)

CursorSpec == QInit /\ [][GNext]_vars

---------------------------------------------------------------------------
(* The rasterization specification: _raster_polygon is called on its own   *)
(* for tables of several configurations, and queries are paged through,    *)
(* under class attributes scaled to the grid in the order of the source's  *)
(* (low threshold < high threshold < partition ceiling).                   *)

(* Configurations with no, one and two precisions above prefix_length.     *)
RasterConfigs ==
    {c \in [prefix_length : 1..3, precision : 1..3, sort_key_field : {None}] :
        c.prefix_length <= c.precision}

OrderedGeoLimits ==
    {l \in [MAX_PARTITIONS_TO_QUERY : {3, 4, 6, 8}, QUERY_OPTIMIZER_MIN_HASHES : 1..3,
            QUERY_OPTIMIZER_MAX_HASHES : 2..5] :
        /\ l.QUERY_OPTIMIZER_MIN_HASHES < l.QUERY_OPTIMIZER_MAX_HASHES
        /\ l.QUERY_OPTIMIZER_MAX_HASHES < l.MAX_PARTITIONS_TO_QUERY}

(* table._raster_polygon(polygon) on a table of this configuration.        *)
Rasterize(_config, polygon, limits) ==
    /\ ~rastered.called
    /\ qstatus = "idle"
    /\ table = {}
    /\ LET r == _raster_polygon(_config, polygon, limits)
       IN  rastered' = [called |-> TRUE, config |-> Some(_config), polygon |-> Some(polygon),
                      limits |-> Some(limits), error |-> r.error, hashes |-> r.hashes]
    /\ UNCHANGED <<table, qargs, pages, cursor, qstatus, qlog, enriched, svars, cvars>>

(* Items of two ids are put at two positions; queries by every polygon and *)
(* every cell are paged through.                                           *)
ANext ==
    \/ /\ ~rastered.called /\ qstatus = "idle" /\ table = {}
       /\ \E _config \in RasterConfigs, polygon \in Polygons, limits \in OrderedGeoLimits :
              Rasterize(_config, polygon, limits)
    \/ /\ ~rastered.called /\ qstatus = "idle"
       /\ \/ \E item \in {it \in RawItems : it.id \in {1, 2}
                                           /\ it.position[1] \in {<<0, 0, 0>>, <<1, 1, 0>>}} :
                 PutItem(item)
          \/ \E limit \in 1..MaxLimit,
                shape \in {sh \in QueryShapes : sh.polygon = None \/ sh.geohash = None},
                limits \in {l \in OrderedGeoLimits : l.MAX_PARTITIONS_TO_QUERY = 4} :
                 StartQuery(limit, shape, limits, None)
    \/ NextPage

RasterSpec == QInit /\ [][ANext]_vars

---------------------------------------------------------------------------
(* The enricher specification: items with and without derived fields are  *)
(* enriched, enriched again, and put.                                      *)

(* What a derived field of an item at this position may hold before the    *)
(* call: nothing, the right value, or another string.                      *)
FieldValues(right, position) == {None, Some(right), Some(<<1 - position[1]>>)}

EnrichInputs ==
    {BareItem(1)} \cup UNION {
        {[id |-> 1, position |-> Some(p), geohash |-> g, geohash_prefix |-> h] :
            g \in FieldValues(Encode(p, config.precision), p),
            h \in FieldValues(Encode(p, config.prefix_length), p)} : p \in Positions}

(* The record of a call of enrich_item, made directly or by put_item;      *)
(* `first` is the result the item given was taken from, if any.            *)
Called(item, overwrite_existing, r, put, first) ==
    enriched' = [called |-> TRUE, put |-> put, item |-> Some(item),
                 overwrite_existing |-> overwrite_existing, error |-> r.error,
                 result |-> IF r.error = "" THEN Some(r.item) ELSE None,
                 input |-> Some(r.input), object |-> r.object, first |-> first]

(* enricher.enrich_item(item, overwrite_existing).                         *)
Enrich(item, overwrite_existing) ==
    /\ Called(item, overwrite_existing, enrich_item(item, overwrite_existing), FALSE, None)
    /\ UNCHANGED <<table, qargs, pages, cursor, qstatus, qlog, rastered, svars, cvars>>

(* enricher.enrich_item(result, overwrite_existing=True) on the item the   *)
(* last call returned.                                                     *)
EnrichAgain ==
    /\ enriched.result # None
    /\ Called(enriched.result[1], TRUE, enrich_item(enriched.result[1], TRUE), FALSE,
              enriched.result)
    /\ UNCHANGED <<table, qargs, pages, cursor, qstatus, qlog, rastered, svars, cvars>>

(* table.put_item(item), of an item with or without derived fields.        *)
PutAny(item) ==
    /\ table' = put_item(table, item).table
    /\ Called(item, FALSE, enrich_item(item, FALSE), TRUE, None)
    /\ UNCHANGED <<qargs, pages, cursor, qstatus, qlog, rastered, svars, cvars>>

ENext ==
    \/ \E item \in EnrichInputs, overwrite_existing \in BOOLEAN :
            Enrich(item, overwrite_existing)
    \/ EnrichAgain
    \/ \E item \in EnrichInputs : PutAny(item)

EnrichSpec == QInit /\ [][ENext]_vars

---------------------------------------------------------------------------
(* Claims about GeoTable.query (under QuerySpec).                          *)

(* The concatenation of the pages returned so far.                         *)
RECURSIVE Concat(_)
Concat(ps) == IF ps = <<>> THEN <<>> ELSE Head(ps) \o Concat(Tail(ps))

Range(seq) == {seq[k] : k \in 1..Len(seq)}

(* The shape the running query matches items against: its polygon, or the *)
(* box of its cell.                                                        *)
QueryShape == IF qargs.polygon # None THEN qargs.polygon[1] ELSE Bbox(qargs.geohash[1])

(* The ids of the stored items whose position lies inside the shape.       *)
MatchingIds ==
    {it.id : it \in {i \in table : i.position # None /\ Contains(QueryShape, i.position[1])}}

(* The matching items not returned by the first k pages.                   *)
NotReturned(k) == MatchingIds \ Range(Concat(SubSeq(pages, 1, k)))

(* C1: query completeness.  When a polygon query has been paged through to *)
(* an empty last_evaluated_key, the concatenated pages hold every stored   *)
(* item inside the polygon exactly once and no other item.  The right-hand *)
(* side does not mention the limit, so the set is the same for every limit.*)
C1_QueryCompleteness ==
    (qstatus = "done" /\ qargs.polygon # None) =>
        LET all == Concat(pages)
        IN  /\ Range(all) = MatchingIds
            /\ \A j, k \in 1..Len(all) : all[j] = all[k] => j = k

C1_Witness ==
    /\ qstatus = "done" /\ qargs.polygon # None
    /\ Len(pages) >= 2
    /\ Cardinality(MatchingIds) >= 2
    /\ \E it \in table : it.id \notin MatchingIds
    /\ \E a, b \in table :
          /\ a.id \in MatchingIds /\ b.id \in MatchingIds
          /\ a.geohash # b.geohash

(* C2: page size.  Every page holds exactly min(limit, M) items, M the     *)
(* number of matching items not returned by the pages before it.           *)
C2_PageSize ==
    \A k \in 1..Len(pages) :
        Len(pages[k]) = Min(qargs.limit, Cardinality(NotReturned(k - 1)))

C2_Witness ==
    /\ Len(pages) = 2
    /\ Len(pages[1]) = qargs.limit /\ qargs.limit = 2
    /\ Len(pages[2]) = 1

---------------------------------------------------------------------------
(* Claims about StatisticsStreamHandler.handle_event (under StatsSpec).    *)
(* last is the account of the record handled last: the record, the counter *)
(* table before it, the exception raised, the updates of its transaction,  *)
(* its conditional deletes, and whether it was a redelivery.               *)

Tiers == Range(statistics_config.precision_steps)

(* The count a counter table holds for a cell; 0 when the row is absent.   *)
CountAt(stats, cell) == IF cell \in DOMAIN stats THEN stats[cell].item_count ELSE 0

RECURSIVE SumCounts(_, _)
SumCounts(stats, cells) ==
    IF cells = {} THEN 0
    ELSE LET c == CHOOSE x \in cells : TRUE
         IN  stats[c].item_count + SumCounts(stats, cells \ {c})

(* The sum of item_count over the rows of one tier.                        *)
TierTotal(stats, p) == SumCounts(stats, {c \in DOMAIN stats : Len(c) = p})

(* The row of a cell is the same, or as absent, in two counter tables.     *)
SameRow(a, b, cell) ==
    /\ (cell \in DOMAIN a) <=> (cell \in DOMAIN b)
    /\ cell \in DOMAIN a => a[cell] = b[cell]

AllCells(a, b) == DOMAIN a \cup DOMAIN b

TierCells(geohash) == {Slice(geohash, p) : p \in Tiers}

Submitted(requests, cell, increment) ==
    \E k \in 1..Len(requests) :
        requests[k].Key = cell /\ requests[k].item_count = increment

(* After a decrement and its conditional delete: the row is gone when the  *)
(* decremented count is <= 0, else it holds the decremented count.         *)
Decremented(cell) ==
    LET count == CountAt(last.before, cell) - 1
    IN  IF count <= 0 THEN cell \notin DOMAIN statistics
        ELSE cell \in DOMAIN statistics /\ statistics[cell].item_count = count

Incremented(cell) ==
    /\ cell \in DOMAIN statistics
    /\ statistics[cell].item_count = CountAt(last.before, cell) + 1

FirstHandling(name) == last.record.eventName = name /\ ~last.replay

(* C4: statistics conservation.  When every change record of the stream    *)
(* has been handled, for every tier the sum of item_count over the tier's  *)
(* rows is the number of source items that carry a geohash.                *)
C4_Conservation ==
    handled = Len(stream) =>
        \A p \in Tiers :
            TierTotal(statistics, p) = Cardinality({it \in table : it.geohash # None})

(* C4 in a build that strips assertions (python -O).                       *)
C4_Conservation_Optimized == ~debug => C4_Conservation

(* C5: idempotent replay.  A redelivered record leaves the counter table   *)
(* as it was, whatever was handled since its first delivery; a committed   *)
(* transaction is recorded under the record's event id.                    *)
C5_IdempotentReplay ==
    /\ last.replay => statistics = last.before
    /\ (last.updates # <<>>) => last.record.eventId \in tokens

C5_Witness ==
    /\ ~debug
    /\ last.replay
    /\ last.record.eventId < handled
    /\ last.updates # <<>>
    /\ \E k \in 1..Len(last.deletes) :
          CountAt(statistics, last.deletes[k].Key) > 0

(* C6: insert effect.  Handling an INSERT whose new image has geohash g    *)
(* adds 1 to the counter of g[:p] for every tier p, creating the row when  *)
(* it is missing; no other row is created, changed or deleted and no       *)
(* conditional delete is issued.                                           *)
C6_InsertEffect ==
    (FirstHandling("INSERT") /\ NewGeohash(last.record) # None) =>
        LET g == NewGeohash(last.record)[1]
        IN  /\ \A c \in TierCells(g) : Incremented(c)
            /\ \A c \in AllCells(statistics, last.before) \ TierCells(g) :
                  SameRow(statistics, last.before, c)
            /\ last.deletes = <<>>

(* C6 in a build that strips assertions (python -O).                       *)
C6_InsertEffect_Optimized == ~debug => C6_InsertEffect

(* C7: delete effect.  Handling a REMOVE whose old image has geohash g     *)
(* subtracts 1 from the counter of g[:p] for every tier p and issues a     *)
(* conditional delete of that cell; afterwards the row is absent when the  *)
(* decremented count is <= 0 and holds the decremented count otherwise.    *)
(* Rows of other cells are unchanged.                                      *)
C7_DeleteEffect ==
    (FirstHandling("REMOVE") /\ OldGeohash(last.record) # None) =>
        LET g == OldGeohash(last.record)[1]
        IN  /\ \A c \in TierCells(g) :
                  /\ Submitted(last.updates, c, -1)
                  /\ Submitted(last.deletes, c, 0)
                  /\ Decremented(c)
            /\ \A c \in AllCells(statistics, last.before) \ TierCells(g) :
                  SameRow(statistics, last.before, c)

(* C7 in a build that strips assertions (python -O).                       *)
C7_DeleteEffect_Optimized == ~debug => C7_DeleteEffect

(* C8: update with unchanged cell.  For a MODIFY with old geohash o and    *)
(* new geohash n, a tier p with o[:p] = n[:p] contributes no update and no *)
(* conditional delete and its rows keep count and updated_at; when that    *)
(* holds for every tier, no transaction is submitted and the counter table *)
(* is unchanged.                                                           *)
C8_UpdateUnchangedCell ==
    (last.record.eventName = "MODIFY" /\ OldGeohash(last.record) # None
                                      /\ NewGeohash(last.record) # None) =>
        LET o == OldGeohash(last.record)[1]
            n == NewGeohash(last.record)[1]
            Unchanged(p) == Slice(o, p) = Slice(n, p)
        IN  /\ \A p \in Tiers : Unchanged(p) =>
                  /\ \A k \in 1..Len(last.updates) : Len(last.updates[k].Key) # p
                  /\ \A k \in 1..Len(last.deletes) : Len(last.deletes[k].Key) # p
                  /\ \A c \in AllCells(statistics, last.before) :
                        Len(c) = p => SameRow(statistics, last.before, c)
            /\ (\A p \in Tiers : Unchanged(p)) =>
                  /\ last.updates = <<>> /\ last.deletes = <<>> /\ last.error = ""
                  /\ statistics = last.before

C8_Witness ==
    /\ ~debug
    /\ FirstHandling("MODIFY")
    /\ OldGeohash(last.record) # None /\ NewGeohash(last.record) # None
    /\ LET o == OldGeohash(last.record)[1]
           n == NewGeohash(last.record)[1]
       IN  /\ Slice(o, 1) = Slice(n, 1) /\ o # n
           /\ last.updates # <<>>
           /\ statistics[Slice(o, 1)].item_count = 2
           /\ statistics[Slice(o, 1)].updated_at < last.updates[1].updated_at

(* C9: update with changed cell.  For a MODIFY with old geohash o and new  *)
(* geohash n, a tier p with o[:p] # n[:p] subtracts 1 from the counter of  *)
(* o[:p] and adds 1 to the counter of n[:p] in one transaction, and a      *)
(* conditional delete then removes the row of o[:p] when its count is      *)
(* <= 0; the total of every tier is unchanged.                             *)
C9_UpdateChangedCell ==
    (FirstHandling("MODIFY") /\ OldGeohash(last.record) # None
                             /\ NewGeohash(last.record) # None) =>
        LET o == OldGeohash(last.record)[1]
            n == NewGeohash(last.record)[1]
        IN  \A p \in Tiers :
               /\ Slice(o, p) # Slice(n, p) =>
                     /\ Submitted(last.updates, Slice(o, p), -1)
                     /\ Submitted(last.updates, Slice(n, p), 1)
                     /\ Submitted(last.deletes, Slice(o, p), 0)
                     /\ Decremented(Slice(o, p))
                     /\ Incremented(Slice(n, p))
               /\ TierTotal(statistics, p) = TierTotal(last.before, p)

(* C9 in a build that strips assertions (python -O).                       *)
C9_UpdateChangedCell_Optimized == ~debug => C9_UpdateChangedCell

(* What handling the record would have left, had it been given as another  *)
(* record of the same event id.                                            *)
HandledAs(record) ==
    _handle_dynamodb_stream_record([statistics |-> last.before, tokens |-> {}],
                                   record, now - 1, debug)

ActsLike(record) ==
    LET r == HandledAs(record)
    IN  /\ statistics = r.statistics
        /\ last.error = r.error
        /\ last.updates = r.updates
        /\ last.deletes = r.deletes

(* C10: missing geohash.  An INSERT whose new image and a REMOVE whose old *)
(* image lacks the geohash cause no store write; a MODIFY whose old image  *)
(* alone lacks it acts like the INSERT of the new image (+1 for every      *)
(* tier); a MODIFY whose new image alone lacks it acts like the REMOVE of  *)
(* the old image (-1 for every tier and a conditional delete).             *)
C10_MissingGeohash ==
    LET old == OldGeohash(last.record)
        new == NewGeohash(last.record)
    IN  /\ (FirstHandling("INSERT") /\ new = None) \/ (FirstHandling("REMOVE") /\ old = None) =>
              /\ last.updates = <<>> /\ last.deletes = <<>> /\ last.error = ""
              /\ statistics = last.before
        /\ (FirstHandling("MODIFY") /\ old = None /\ new # None) =>
              /\ ActsLike([last.record EXCEPT !.eventName = "INSERT", !.OldImage = None])
              /\ \A c \in TierCells(new[1]) : Incremented(c)
        /\ (FirstHandling("MODIFY") /\ old # None /\ new = None) =>
              /\ ActsLike([last.record EXCEPT !.eventName = "REMOVE", !.NewImage = None])
              /\ \A c \in TierCells(old[1]) :
                    Submitted(last.deletes, c, 0) /\ Decremented(c)

(* C10 in a build that strips assertions (python -O).                      *)
C10_MissingGeohash_Optimized == ~debug => C10_MissingGeohash

---------------------------------------------------------------------------
(* Claims about concurrent stream consumers (under ConcSpec).              *)

(* No consumer is inside handle_event and every record was delivered.      *)
AllHandled ==
    \A h \in Shards : workers[h].pc = "idle" /\ workers[h].done = Len(Shard(h))

(* The consumer of shard h takes a step.                                   *)
Steps(h) == workers'[h] # workers[h]

(* C11: cross-tier atomicity.  In every state a concurrent reader can      *)
(* observe, every tier holds the same total, so no event is applied at one *)
(* tier and not at another; and a step in which the transaction of a       *)
(* record fails changes no counter row.                                    *)
C11_CrossTierAtomicity ==
    /\ [](\A p, q \in Tiers : TierTotal(statistics, p) = TierTotal(statistics, q))
    /\ [][\A h \in Shards :
            (Steps(h) /\ workers'[h].error = "TransactionCanceledException") =>
                statistics' = statistics]_vars

C11_Witness ==
    /\ ~debug
    /\ \E h, g \in Shards :
          /\ workers[h].pc = "deleting"
          /\ workers[g].error = "TransactionCanceledException"
    /\ \A p \in Tiers : TierTotal(statistics, p) >= 1

(* Where the consumer goes on after a conditional delete.                  *)
GoesOn(w, w2) ==
    /\ w2.error = ""
    /\ IF Len(w.pending) > 1
       THEN w2.pc = "deleting" /\ w2.pending = Tail(w.pending) /\ w2.at = w.at
       ELSE IF w.at < w.until
       THEN w2.pc = "transact" /\ w2.at = w.at + 1 /\ w2.until = w.until
       ELSE w2.pc = "idle" /\ w2.done >= w.until

(* C12: swallowed precondition failure.  When a conditional delete fails   *)
(* its precondition (the row holds a positive count, or is gone),          *)
(* handle_event does not raise, the row is left as it is, and the call     *)
(* goes on with the remaining conditional deletes of the record and the    *)
(* remaining records of the batch.                                         *)
C12_SwallowedPreconditionFailure ==
    [][\A h \in Shards :
          (/\ Steps(h)
           /\ workers[h].pc = "deleting"
           /\ delete_item(statistics, Head(workers[h].pending)).error
                 = "ConditionalCheckFailedException") =>
              /\ statistics' = statistics
              /\ GoesOn(workers[h], workers'[h])]_vars

C12_Witness ==
    /\ ~debug
    /\ \E h \in Shards :
          /\ workers[h].pc = "transact"
          /\ workers[h].swallowed = 1
          /\ workers[h].at = workers[h].until
          /\ \E c \in DOMAIN statistics : statistics[c].item_count > 0

(* C13: non-negative counters.  Every counter row holds a count >= 0 in    *)
(* every state reached by consumers handling their shards concurrently,    *)
(* redeliveries included.                                                  *)
C13_NonNegativeCounters ==
    \A c \in DOMAIN statistics : statistics[c].item_count >= 0

C13_Witness ==
    /\ ~debug
    /\ \E c \in DOMAIN statistics : statistics[c].item_count = 0
    /\ \E h, g \in Shards :
          h # g /\ workers[h].pc = "deleting" /\ workers[g].done >= 1

(* The number of stored items whose geohash lies in a cell.                *)
LiveItems(cell) ==
    Cardinality({it \in table : it.geohash # None /\ BeginsWith(it.geohash[1], cell)})

C14_NoPrematureDeletion_Optimized ==
    /\ [][\A c \in DOMAIN statistics :
            c \notin DOMAIN statistics' => statistics[c].item_count <= 0]_vars
    /\ []((~debug /\ AllHandled) =>
            \A p \in Tiers : \A c \in Strings(p) :
                LiveItems(c) >= 1 =>
                    c \in DOMAIN statistics /\ statistics[c].item_count = LiveItems(c))

(* A race of C14 is about to happen: a consumer has drained a row to 0    *)
(* and not yet deleted it, and another consumer stands before an INSERT    *)
(* into the row's cell.                                                    *)
C14_Race ==
    /\ ~debug
    /\ \E h, g \in Shards :
          /\ h # g
          /\ workers[h].pc = "deleting"
          /\ Head(workers[h].pending).Key \in DOMAIN statistics
          /\ statistics[Head(workers[h].pending).Key].item_count = 0
          /\ workers[g].pc = "idle" /\ workers[g].done < Len(Shard(g))
          /\ LET record == Shard(g)[workers[g].done + 1]
             IN  /\ NewGeohash(record) # None
                 /\ BeginsWith(NewGeohash(record)[1], Head(workers[h].pending).Key)

---------------------------------------------------------------------------
(* Claims about full reprocessing (under ReprocessSpec).                   *)

(* The counter table holds exactly the rows of the source table's items:   *)
(* for every tier and every cell of the tier that holds k >= 1 items with  *)
(* a geohash a row with count k, and no other row.                         *)
ExactStatistics ==
    /\ \A c \in DOMAIN statistics : Len(c) \in Tiers /\ LiveItems(c) >= 1
    /\ \A p \in Tiers : \A c \in Strings(p) :
          LiveItems(c) >= 1 =>
              c \in DOMAIN statistics /\ statistics[c].item_count = LiveItems(c)

(* reprocess_full_table has returned or raised.                            *)
ReprocessEnded == reprocess.pc \in {"finished", "failed"}

(* No source write was made and no record was delivered since              *)
(* reprocess_full_table was entered.                                       *)
QuietSinceStart ==
    Len(stream) = reprocess.streamed /\ handled = reprocess.handled

(* C15: full reprocessing on a quiescent system.  When                     *)
(* reprocess_full_table has run with no source write and no delivered      *)
(* change record meanwhile, it has returned and the counter table holds,   *)
(* for every tier and every cell with k >= 1 source items, a row with      *)
(* count k and no other row: rows found before are cleared, items without  *)
(* a geohash add nothing.                                                  *)
C15_QuiescentReprocessing ==
    (ReprocessEnded /\ QuietSinceStart) =>
        reprocess.pc = "finished" /\ ExactStatistics

(* C15 in a build that strips assertions (python -O).                      *)
C15_QuiescentReprocessing_Optimized == ~debug => C15_QuiescentReprocessing

(* A quiescent run of C15 that found stale rows, items with and without a  *)
(* geohash, and has returned.                                              *)
C15_Rebuilt ==
    /\ ~debug
    /\ reprocess.pc = "finished"
    /\ QuietSinceStart
    /\ \E it \in table : it.geohash = None
    /\ \E it \in table : it.geohash # None
    /\ <<0, 0, 0>> \notin DOMAIN statistics
    /\ reprocess.streamed >= 2

(* C16: reprocessing converges under live traffic.  Once                   *)
(* reprocess_full_table has ended and every change record was handled,     *)
(* the counter of every cell of every tier is the number of source items   *)
(* with a geohash in the cell.                                             *)
C16_ReprocessingConverges ==
    (ReprocessEnded /\ handled = Len(stream)) =>
        \A p \in Tiers : \A c \in Strings(p) : CountAt(statistics, c) = LiveItems(c)

(* C16 in a build that strips assertions (python -O).                      *)
C16_ReprocessingConverges_Optimized == ~debug => C16_ReprocessingConverges

---------------------------------------------------------------------------
(* Claims about the statistics query (under StatisticsQuerySpec).          *)

(* The k-th tier of the queried table's configuration in ascending         *)
(* precision, and the number of its tiers.                                 *)
KthTier(k) ==
    CHOOSE p \in Range(squery.precision_steps) :
        Cardinality({x \in Range(squery.precision_steps) : x < p}) = k - 1

TierCount == Cardinality(Range(squery.precision_steps))

(* The estimated recursion depth and the exact cell set of the polygon at  *)
(* the k-th tier.                                                          *)
Depth(k) == _number_of_recursions(squery.polygon, KthTier(k))

CellSet(k) == PolygonToGeohash(squery.polygon, KthTier(k))

(* The k-th tier passes its tests.                                         *)
TierFits(k) ==
    IF k = 1 THEN Cardinality(CellSet(1)) <= squery.limits.MAX_HASHES_TO_QUERY
    ELSE /\ Depth(k) <= squery.limits.MAX_NUMBER_OF_RECURSIONS
         /\ Cardinality(CellSet(k)) <= squery.limits.QUERY_OPTIMIZER_MAX_HASHES

(* The last tier before the first that fails.                              *)
SelectedTier == SetMax({k \in 1..TierCount : \A j \in 1..k : TierFits(j)})

(* The polygon's estimate at the coarsest tier is within the depth cap.    *)
WithinDepthCap == Depth(1) <= squery.limits.MAX_NUMBER_OF_RECURSIONS

SelectedRows == Range(squery.hashes) \cap DOMAIN statistics

(* How often a key is requested by the batch_get_item calls.               *)
TimesRequested(key) ==
    Cardinality({pos \in (1..Len(squery.requests)) \X (1..Len(squery.hashes)) :
                    /\ pos[2] <= Len(squery.requests[pos[1]])
                    /\ squery.requests[pos[1]][pos[2]] = key})

(* ceil(n / b).                                                            *)
Ceil(n, b) == CHOOSE m \in 0..n : m * b >= n /\ (m = 0 \/ (m - 1) * b < n)

(* C18: statistics query result.  A query that does not fail returns one   *)
(* item for every row stored under a selected cell id, with the row's      *)
(* item_count, and nothing for a selected cell without a row; every        *)
(* selected cell id is requested once, in ceil(n / query_batch_size)       *)
(* batch_get_item calls of at most query_batch_size keys.                  *)
C18_QueryResult ==
    (squery.called /\ squery.error = "") =>
        /\ Len(squery.items) = Cardinality(SelectedRows)
        /\ \A c \in SelectedRows :
              \E k \in 1..Len(squery.items) :
                  /\ squery.items[k].geohash = c
                  /\ squery.items[k].item_count = statistics[c].item_count
        /\ \A c \in Range(squery.hashes) : TimesRequested(c) = 1
        /\ \A b \in 1..Len(squery.requests) :
              /\ Len(squery.requests[b]) <= squery.limits.query_batch_size
              /\ Range(squery.requests[b]) \subseteq Range(squery.hashes)
        /\ Len(squery.requests) = Ceil(Len(squery.hashes), squery.limits.query_batch_size)

C18_Witness ==
    /\ squery.called
    /\ squery.error = ""
    /\ Len(squery.requests) >= 2
    /\ Len(squery.requests[Len(squery.requests)]) < squery.limits.query_batch_size
    /\ Range(squery.hashes) \ DOMAIN statistics # {}
    /\ Len(squery.items) >= 2

(* C19: QueryTooLarge by cell count.  A query whose polygon has more than  *)
(* MAX_HASHES_TO_QUERY cells at the coarsest tier fails with ValueError    *)
(* and makes no batch_get_item call.                                       *)
C19_TooManyCells ==
    (squery.called /\ Cardinality(CellSet(1)) > squery.limits.MAX_HASHES_TO_QUERY) =>
        squery.error = "ValueError" /\ squery.requests = <<>>

(* C19 for polygons whose estimate at the coarsest tier is within the      *)
(* depth cap.                                                              *)
C19_TooManyCells_WithinDepthCap ==
    (squery.called /\ WithinDepthCap) => C19_TooManyCells

(* A query that failed with ValueError.                                    *)
C19_Refused == squery.called /\ squery.error = "ValueError"

(* C20: QueryTooLarge by estimated cost.  A query whose polygon's          *)
(* estimated recursion depth exceeds MAX_NUMBER_OF_RECURSIONS at the       *)
(* coarsest tier, so that no tier is selected, fails with ValueError.      *)
C20_TooCostly ==
    (squery.called /\ ~WithinDepthCap) => squery.error = "ValueError"

---------------------------------------------------------------------------
(* Claims about the failures and the rasterization of GeoTable.query.      *)

(* The number of shapes the running query was given.                       *)
GivenShapes ==
    (IF qargs.polygon # None THEN 1 ELSE 0) + (IF qargs.geohash # None THEN 1 ELSE 0)

(* C21: InvalidQuery.  A query given both a polygon and a geohash, or      *)
(* neither, raises the ValueError of _validate_parameters before any       *)
(* request to the store: no cursor lookup, no partition query, no page.  A *)
(* query given exactly one of them does not raise it.                      *)
C21_InvalidQuery ==
    qstatus # "idle" =>
        /\ GivenShapes # 1 =>
               /\ qstatus = "InvalidQuery"
               /\ qlog.get_item = FALSE
               /\ qlog.queried = <<>>
               /\ pages = <<>>
        /\ GivenShapes = 1 => qstatus # "InvalidQuery"

C21_Witness ==
    /\ qstatus = "InvalidQuery"
    /\ GivenShapes = 2
    /\ table # {}

(* The cells of the running query's polygon at prefix_length.              *)
PartitionsOfQuery == PolygonToGeohash(qargs.polygon[1], config.prefix_length)

(* C22: QueryTooLarge.  A polygon that covers more cells of prefix_length  *)
(* than MAX_PARTITIONS_TO_QUERY is refused with a ValueError before any    *)
(* request to the store, whether or not a cursor was supplied: no cursor   *)
(* lookup, no partition query.  A polygon within the ceiling is never      *)
(* refused for this reason.                                                *)
C22_QueryTooLarge ==
    (qstatus # "idle" /\ qargs.polygon # None) =>
        IF Cardinality(PartitionsOfQuery) > qargs.limits.MAX_PARTITIONS_TO_QUERY
        THEN /\ qstatus = "QueryTooLarge"
             /\ qlog.get_item = FALSE
             /\ qlog.queried = <<>>
             /\ pages = <<>>
        ELSE qstatus # "QueryTooLarge"

(* A refused query that was handed the cursor of a stored item.            *)
C22_Witness ==
    /\ qstatus = "QueryTooLarge"
    /\ qlog.exclusive_start_key # None
    /\ StoreGet(table, qlog.exclusive_start_key[1]) # {}

(* The item of the cursor, when it is stored.                              *)
CursorItem == CHOOSE it \in table : it.id = cursor[1].id

(* The stored item of an id.                                               *)
ItemOf(id) == CHOOSE it \in table : it.id = id

(* C23: ResumeItemNotFound.  A following call whose cursor names an item   *)
(* that is no longer stored raises a ValueError after the cursor lookup    *)
(* and before any partition query, and returns no page.  When the item is  *)
(* still stored the call succeeds, its first partition query is on the     *)
(* cell of that item, and every item of its page lies after that item in   *)
(* the order of the index.                                                 *)
C23_ResumeItemNotFound ==
    [][(qstatus = "paging" /\ table' = table) =>
          IF StoreGet(table, cursor[1]) = {}
          THEN /\ qstatus' = "ResumeItemNotFound"
               /\ qlog'.get_item = TRUE
               /\ qlog'.queried = <<>>
               /\ pages' = pages
          ELSE /\ qstatus' \in {"paging", "done"}
               /\ qlog'.get_item = TRUE
               /\ qlog'.queried # <<>>
               /\ BeginsWith(CursorItem.geohash[1], qlog'.queried[1])
               /\ Len(pages') = Len(pages) + 1
               /\ \A k \in 1..Len(pages'[Len(pages')]) :
                      IndexLess(query_key_from_item(CursorItem),
                                query_key_from_item(ItemOf(pages'[Len(pages')][k])))]_vars

(* The item of the cursor was deleted after a page, and the next call      *)
(* failed on it.                                                           *)
C23_Witness ==
    /\ qstatus = "ResumeItemNotFound"
    /\ Len(pages) >= 1
    /\ qlog.get_item = TRUE

(* A call resumed behind a stored cursor item and returned a further page. *)
C23_Resumed ==
    /\ qstatus \in {"paging", "done"}
    /\ Len(pages) >= 2
    /\ pages[Len(pages)] # <<>>

(* C24: empty rasterization.  A polygon query whose shape rasterizes to    *)
(* zero cells returns one empty page with no last_evaluated_key and raises *)
(* no error.                                                               *)
C24_EmptyRasterization ==
    (qstatus # "idle" /\ qargs.polygon # None /\ PartitionsOfQuery = {}) =>
        /\ qstatus = "done"
        /\ pages = <<<<>>>>
        /\ cursor = None

(* What the running query's last call would have left had it been given   *)
(* this polygon instead of its cell.                                       *)
AsPolygonQuery(polygon) ==
    query(table, qargs.limit, Some(polygon), None, qlog.exclusive_start_key, qargs.limits)

(* The status a result leaves.                                             *)
StatusOf(result) ==
    IF result.error # "" THEN result.error
    ELSE IF result.last_evaluated_key = None THEN "done"
    ELSE "paging"

(* C25: exact-filter dispatch.  A query by a cell whose length lies within *)
(* prefix_length..precision queries that cell as its only partition range, *)
(* and once paged through has returned exactly the stored items whose      *)
(* geohash begins with the cell, each once.  A query by a shorter or       *)
(* longer cell leaves, call by call, what the polygon query over the       *)
(* cell's bounding box leaves: the same page, cursor, error and requests.  *)
(* Every item a polygon query returns lies inside the polygon.             *)
C25_ExactFilterDispatch ==
    (qstatus # "idle" /\ GivenShapes = 1) =>
        IF qargs.geohash # None
        THEN LET cell == qargs.geohash[1]
             IN  IF config.prefix_length <= Len(cell) /\ Len(cell) <= config.precision
                 THEN /\ qstatus \in {"paging", "done"}
                      /\ qlog.queried # <<>>
                      /\ \A k \in 1..Len(qlog.queried) : qlog.queried[k] = cell
                      /\ qstatus = "done" =>
                             /\ Range(Concat(pages)) =
                                    {it.id : it \in {i \in table :
                                                        BeginsWith(i.geohash[1], cell)}}
                             /\ Len(Concat(pages)) = Cardinality(Range(Concat(pages)))
                 ELSE LET r == AsPolygonQuery(Bbox(cell))
                      IN  /\ qstatus = StatusOf(r)
                          /\ cursor = r.last_evaluated_key
                          /\ qlog.queried = r.queried
                          /\ qlog.get_item = r.get_item
                          /\ r.error = "" => pages[Len(pages)] = ItemIds(r.items)
        ELSE \A id \in Range(Concat(pages)) :
                 Contains(qargs.polygon[1], ItemOf(id).position[1])

(* A query by a cell of valid length was paged through on a table that     *)
(* also holds an item outside the cell.                                    *)
C25_Witness ==
    /\ qstatus = "done"
    /\ qargs.geohash # None
    /\ Len(qargs.geohash[1]) = config.precision
    /\ Len(pages) >= 2
    /\ \E it \in table : ~BeginsWith(it.geohash[1], qargs.geohash[1])

(* A query by a cell longer than precision returned an item.               *)
C25_LongCell ==
    /\ qstatus = "done"
    /\ qargs.geohash # None
    /\ Len(qargs.geohash[1]) > config.precision
    /\ Concat(pages) # <<>>

(* The cells of the running query's polygon one precision above            *)
(* prefix_length, which is config.precision.                               *)
FinerCells == PolygonToGeohash(qargs.polygon[1], config.prefix_length + 1)

(* Every cell the last call queried has this precision.                    *)
QueriedAt(precision) ==
    \A k \in 1..Len(qlog.queried) : Len(qlog.queried[k]) = precision

(* C30 as stated: a polygon query whose count of cells at prefix_length is *)
(* below QUERY_OPTIMIZER_MIN_HASHES queries those cells, without refining  *)
(* them to a higher precision.                                             *)
C30_SmallUsedDirectly ==
    (qstatus \in {"paging", "done"} /\ qargs.polygon # None) =>
        (Cardinality(PartitionsOfQuery) < qargs.limits.QUERY_OPTIMIZER_MIN_HASHES
            => QueriedAt(config.prefix_length))

(* C30, amended: a polygon query whose count of cells at prefix_length     *)
(* exceeds QUERY_OPTIMIZER_MIN_HASHES queries those cells; one whose count *)
(* is at most QUERY_OPTIMIZER_MIN_HASHES queries the cells of the next     *)
(* precision when these are at most QUERY_OPTIMIZER_MAX_HASHES, and the    *)
(* cells of prefix_length when they are more.                              *)
C30_AdaptiveRasterization ==
    (qstatus \in {"paging", "done"} /\ qargs.polygon # None) =>
        IF Cardinality(PartitionsOfQuery) > qargs.limits.QUERY_OPTIMIZER_MIN_HASHES
        THEN QueriedAt(config.prefix_length)
        ELSE IF Cardinality(FinerCells) <= qargs.limits.QUERY_OPTIMIZER_MAX_HASHES
        THEN QueriedAt(config.prefix_length + 1)
        ELSE QueriedAt(config.prefix_length)

(* A polygon with more cells of prefix_length than the low threshold was   *)
(* queried by those cells.                                                 *)
C30_Witness ==
    /\ qstatus \in {"paging", "done"}
    /\ Cardinality(PartitionsOfQuery) > qargs.limits.QUERY_OPTIMIZER_MIN_HASHES
    /\ QueriedAt(config.prefix_length)
    /\ pages[1] # <<>>
    /\ qlog.queried # <<>>

(* A refinement that exceeded the high threshold was not taken.            *)
C30_NotTaken ==
    /\ qstatus \in {"paging", "done"}
    /\ Cardinality(PartitionsOfQuery) <= qargs.limits.QUERY_OPTIMIZER_MIN_HASHES
    /\ Cardinality(FinerCells) > qargs.limits.QUERY_OPTIMIZER_MAX_HASHES
    /\ QueriedAt(config.prefix_length)
    /\ qlog.queried # <<>>

---------------------------------------------------------------------------
(* Claims about GeoItemEnricher.enrich_item (under EnrichSpec).            *)

(* The item given to the last call holds one of the derived fields.        *)
HasDerivedField ==
    enriched.item[1].geohash # None \/ enriched.item[1].geohash_prefix # None

(* The derived fields of the position of an item.                          *)
DerivedOf(item) ==
    [geohash |-> Some(SubSeq(item.position[1], 1, config.precision)),
     geohash_prefix |-> Some(SubSeq(item.position[1], 1, config.prefix_length))]

(* C26: FieldConflict.  With overwrite_existing false enrich_item raises   *)
(* a ValueError whenever its input holds the geohash field or the prefix   *)
(* field; so put_item of an item that already holds one fails and leaves   *)
(* the table as it was.  With overwrite_existing true it never raises that *)
(* error and both fields are replaced.                                     *)
C26_FieldConflict ==
    [][(enriched' # enriched /\ enriched'.item[1].position # None) =>
          /\ (~enriched'.overwrite_existing
                 /\ (\/ enriched'.item[1].geohash # None
                     \/ enriched'.item[1].geohash_prefix # None)) =>
                 /\ enriched'.error = "FieldConflict"
                 /\ enriched'.result = None
                 /\ table' = table
          /\ enriched'.overwrite_existing =>
                 /\ enriched'.error = ""
                 /\ enriched'.result[1].geohash = DerivedOf(enriched'.item[1]).geohash
                 /\ enriched'.result[1].geohash_prefix
                        = DerivedOf(enriched'.item[1]).geohash_prefix]_vars

(* put_item of an item that holds only the prefix field failed on a table  *)
(* that holds another item version.                                        *)
C26_Witness ==
    /\ enriched.put
    /\ enriched.error = "FieldConflict"
    /\ enriched.item[1].geohash = None
    /\ enriched.item[1].geohash_prefix # None
    /\ table # {}
    /\ \E it \in table : it.position # enriched.item[1].position

(* C27: copy-on-write.  The item given to enrich_item holds after the call *)
(* what it held before, whether the call succeeded or raised; the item     *)
(* returned is another object, equal to the input on every field other     *)
(* than the two derived ones.                                              *)
C27_CopyOnWrite ==
    enriched.called =>
        /\ enriched.input = enriched.item
        /\ enriched.error = "" =>
               /\ enriched.object # "item"
               /\ enriched.result[1].id = enriched.item[1].id
               /\ enriched.result[1].position = enriched.item[1].position

(* A call that set the geohash in its copy and then raised on the prefix.  *)
C27_Witness ==
    /\ enriched.called
    /\ enriched.error = "FieldConflict"
    /\ enriched.item[1].geohash = None
    /\ enriched.item[1].geohash_prefix # None

(* A call that replaced both fields of its input.                          *)
C27_Replaced ==
    /\ enriched.error = ""
    /\ enriched.result # None
    /\ enriched.item[1].geohash # None
    /\ enriched.result[1].geohash # enriched.item[1].geohash

(* C28: the derived fields.  A returned item's geohash has precision       *)
(* characters and is the cell of its position, and its prefix is the first *)
(* prefix_length characters of that geohash; enriching a returned item     *)
(* again with overwrite_existing true returns the same item, whatever the  *)
(* derived fields held before the first call.                              *)
C28_DerivedFields ==
    enriched.result # None =>
        LET result == enriched.result[1]
        IN  /\ Len(result.geohash[1]) = config.precision
            /\ BeginsWith(result.position[1], result.geohash[1])
            /\ result.geohash_prefix[1] = SubSeq(result.geohash[1], 1, config.prefix_length)
            /\ enriched.first # None => enriched.result = enriched.first

(* An item with other strings in its derived fields was enriched with      *)
(* overwrite_existing true, and the result enriched again.                 *)
C28_Witness ==
    /\ enriched.first # None
    /\ enriched.result # None
    /\ enriched.result[1].geohash_prefix # None

---------------------------------------------------------------------------
(* Claims about the timestamps of the counter rows (under StatsSpec).      *)

(* The rows the last handled record created or changed.                    *)
MutatedRows ==
    {c \in DOMAIN statistics : c \notin DOMAIN last.before \/ statistics[c] # last.before[c]}

(* C29: timestamp stamping.  Building a change item never fails on the     *)
(* assertion of _timestamp_to_db, and every counter row a handled record   *)
(* created or changed carries as updated_at the time read for that         *)
(* record's change items, which is not later than the current time.        *)
C29_TimestampStamping ==
    /\ last.error # "AssertionError"
    /\ \A c \in MutatedRows :
           \E k \in 1..Len(last.updates) :
               /\ last.updates[k].Key = c
               /\ statistics[c].updated_at = last.updates[k].updated_at
               /\ statistics[c].updated_at <= now

(* C29 in a build that strips assertions (python -O).                      *)
C29_TimestampStamping_Optimized == ~debug => C29_TimestampStamping

(* A handled record left a row with its timestamp.                         *)
C29_Stamped == ~debug /\ MutatedRows # {} /\ now > 1

---------------------------------------------------------------------------
(* C31: adaptive rasterization, refinement bounds.  A rasterization that   *)
(* returns has refined one precision at a time from prefix_length + 1 to   *)
(* at most config.precision: its cells are those of the last precision q   *)
(* such that every step up to q had at most QUERY_OPTIMIZER_MAX_HASHES     *)
(* cells and every step before q had fewer than QUERY_OPTIMIZER_MIN_HASHES *)
(* cells, and the cells of prefix_length when those are more than          *)
(* QUERY_OPTIMIZER_MIN_HASHES.  The cells of a rasterization and of a      *)
(* successful query are at most MAX_PARTITIONS_TO_QUERY, at most           *)
(* QUERY_OPTIMIZER_MAX_HASHES when longer than prefix_length, and of one   *)
(* length within prefix_length..precision.                                 *)
C31_RefinementBounds ==
    /\ (rastered.called /\ rastered.error = "") =>
          LET _config == rastered.config[1]
              polygon == rastered.polygon[1]
              limits == rastered.limits[1]
              n(p) == Cardinality(PolygonToGeohash(polygon, p))
              steps == {q \in _config.prefix_length.._config.precision :
                          /\ \A p \in (_config.prefix_length + 1)..q :
                                n(p) <= limits.QUERY_OPTIMIZER_MAX_HASHES
                          /\ \A p \in (_config.prefix_length + 1)..(q - 1) :
                                n(p) < limits.QUERY_OPTIMIZER_MIN_HASHES}
              reached == CHOOSE q \in steps : \A r \in steps : r <= q
          IN  /\ rastered.hashes =
                    IF n(_config.prefix_length) > limits.QUERY_OPTIMIZER_MIN_HASHES
                    THEN PolygonToGeohash(polygon, _config.prefix_length)
                    ELSE PolygonToGeohash(polygon, reached)
              /\ Cardinality(rastered.hashes) <= limits.MAX_PARTITIONS_TO_QUERY
              /\ \A h \in rastered.hashes :
                    Len(h) > _config.prefix_length =>
                        Cardinality(rastered.hashes) <= limits.QUERY_OPTIMIZER_MAX_HASHES
              /\ \E q \in _config.prefix_length.._config.precision :
                    \A h \in rastered.hashes : Len(h) = q
    /\ qstatus \in {"done", "paging"} =>
          /\ Len(qlog.geohashes) \in 1..qargs.limits.MAX_PARTITIONS_TO_QUERY
          /\ \A k \in 1..Len(qlog.geohashes) :
                Len(qlog.geohashes[k]) > config.prefix_length =>
                    Len(qlog.geohashes) <= qargs.limits.QUERY_OPTIMIZER_MAX_HASHES
          /\ \E q \in config.prefix_length..config.precision :
                \A k \in 1..Len(qlog.geohashes) : Len(qlog.geohashes[k]) = q

(* A rasterization over two possible steps that stopped after the first    *)
(* because its cells met the low threshold, although the cells of the      *)
(* second step were within the high threshold.                             *)
C31_Witness ==
    /\ rastered.called
    /\ rastered.error = ""
    /\ rastered.config[1].prefix_length = 1
    /\ rastered.config[1].precision = 3
    /\ rastered.hashes # {}
    /\ \A h \in rastered.hashes : Len(h) = 2
    /\ Cardinality(PolygonToGeohash(rastered.polygon[1], 3))
          <= rastered.limits[1].QUERY_OPTIMIZER_MAX_HASHES
    /\ Cardinality(PolygonToGeohash(rastered.polygon[1], 3))
          > Cardinality(rastered.hashes)

---------------------------------------------------------------------------
(* The store requests of one call of query, made on table tbl with this    *)
(* limit, scan the selected cells forward only.                            *)
ForwardOnly(tbl, limit, log, status) ==
    LET reqs == log.requests
        cells == log.geohashes
        resumed == /\ log.exclusive_start_key # None
                   /\ cells # <<>>
                   /\ \E it \in tbl : it.id = log.exclusive_start_key[1].id
        cursor_item == CHOOSE it \in tbl : it.id = log.exclusive_start_key[1].id
        cursor_cell == Slice(cursor_item.geohash[1], Len(cells[1]))
        to_scan == IF resumed
                   THEN SelectSeq(cells, LAMBDA g : LexLeq(cursor_cell, g))
                   ELSE cells
        visited == {reqs[k].geohash : k \in 1..Len(reqs)}
    IN  \* ascending order, no cell queried again once the scan has left it
        /\ \A j, k \in 1..Len(reqs) :
              j < k => LexLeq(reqs[j].geohash, reqs[k].geohash)
        \* the cells queried are the selected ones, none skipped
        /\ \A k \in 1..Len(to_scan) :
              to_scan[k] \in visited => \A j \in 1..k : to_scan[j] \in visited
        /\ \A g \in visited : \E k \in 1..Len(to_scan) : to_scan[k] = g
        \* the scan stays in a cell until the store reports it exhausted
        /\ \A k \in 1..(Len(reqs) - 1) :
              IF reqs[k].LastEvaluatedKey # None
              THEN /\ reqs[k + 1].geohash = reqs[k].geohash
                   /\ reqs[k + 1].ExclusiveStartKey = reqs[k].LastEvaluatedKey
              ELSE /\ LexLess(reqs[k].geohash, reqs[k + 1].geohash)
                   /\ reqs[k + 1].ExclusiveStartKey = None
        \* and it ends with limit + 1 rows or with the last cell exhausted
        /\ status \in {"done", "paging"} =>
              \/ Len(reqs) = 0 /\ to_scan = <<>>
              \/ Len(reqs) > 0 /\ reqs[Len(reqs)].collected = limit + 1
              \/ /\ Len(reqs) > 0
                 /\ reqs[Len(reqs)].LastEvaluatedKey = None
                 /\ reqs[Len(reqs)].geohash = to_scan[Len(to_scan)]
        \* each request asks for the rows still missing from limit + 1
        /\ \A k \in 1..Len(reqs) :
              /\ reqs[k].Limit = limit + 1 - (IF k = 1 THEN 0 ELSE reqs[k - 1].collected)
              /\ reqs[k].Limit >= 1
              /\ reqs[k].collected <= limit + 1
        \* on resume the cells before the cursor item's are left out; its   
        \* own cell is continued from its position
        /\ Len(reqs) > 0 =>
              /\ reqs[1].geohash = to_scan[1]
              /\ reqs[1].ExclusiveStartKey =
                    IF resumed THEN Some(query_key_from_item(cursor_item)) ELSE None
              /\ (resumed /\ reqs[1].geohash # cursor_cell) =>
                    status = "ValidationException" /\ Len(reqs) = 1

(* C32: forward-only partition scan.  Within one call of query the cells   *)
(* are queried in ascending order and none is queried again once the scan  *)
(* has left it; the scan stays in a cell until the store reports it        *)
(* exhausted or limit + 1 rows are collected; each request asks for        *)
(* limit + 1 - collected >= 1 rows and no more than limit + 1 are          *)
(* collected; on resume the cells smaller than the cursor item's cell are  *)
(* left out, the first request continues from the cursor item's position   *)
(* and every later cell is queried from its beginning; a cell other than   *)
(* the cursor item's is never scanned from the cursor position, the store  *)
(* refuses that request.                                                   *)
C32_ForwardOnlyScan ==
    [][table' = table => ForwardOnly(table, qargs'.limit, qlog', qstatus')]_vars

(* A resumed call that continued the cursor item's cell from the cursor    *)
(* position and went on to a later cell from its beginning, asking it for  *)
(* fewer than limit + 1 rows.                                              *)
C32_Witness ==
    /\ qstatus \in {"done", "paging"}
    /\ qlog.exclusive_start_key # None
    /\ Len(pages) >= 2
    /\ Len(qlog.requests) >= 2
    /\ qlog.requests[1].ExclusiveStartKey # None
    /\ \E k \in 2..Len(qlog.requests) :
          /\ LexLess(qlog.requests[1].geohash, qlog.requests[k].geohash)
          /\ qlog.requests[k].ExclusiveStartKey = None
          /\ qlog.requests[k].Limit < qargs.limit + 1

(* A call that stayed in a cell for a second request because the store     *)
(* reported the cell not exhausted.                                        *)
C32_Stayed ==
    /\ qstatus \in {"done", "paging"}
    /\ \E k \in 1..(Len(qlog.requests) - 1) :
          /\ qlog.requests[k].LastEvaluatedKey # None
          /\ qlog.requests[k + 1].geohash = qlog.requests[k].geohash

---------------------------------------------------------------------------
(* The counter table holds a row of this cell with item_count <= 0.        *)
Drained(c) == c \in DOMAIN statistics /\ statistics[c].item_count <= 0

(* C33: eventual cleanup.  Whatever the interleaving of the consumers and  *)
(* whatever is delivered again, a row with item_count <= 0 does not stay:  *)
(* it is deleted (or counts a new item) while the consumer that drained it *)
(* goes on; and when every consumer has returned and every record was      *)
(* handled, the counter table, empty at the start, holds no row with       *)
(* item_count <= 0.                                                        *)
C33_EventualCleanup ==
    /\ [](AllHandled => \A c \in DOMAIN statistics : ~Drained(c))
    /\ \A p \in Tiers : \A c \in Strings(p) : Drained(c) ~> ~Drained(c)

(* Every record was handled, among them one whose committed transaction    *)
(* took the last item from a cell; the cell's row is gone, while another   *)
(* row still counts an item.                                               *)
C33_Witness ==
    /\ ~debug
    /\ AllHandled
    /\ \E h \in Shards : \E k \in 1..Len(Shard(h)) : \E p \in Tiers :
          /\ Shard(h)[k].eventId \in tokens
          /\ Truthy(OldGeohash(Shard(h)[k]))
          /\ Slice(OldGeohash(Shard(h)[k])[1], p) \notin DOMAIN statistics
    /\ \E c \in DOMAIN statistics : statistics[c].item_count > 0

===========================================================================
